---- MODULE Spec2Model ----
(***************************************************************************)
(* cinatra coro_http_client: the request engine, the response reader, the  *)
(* multipart uploader, the deadline timer and the WebSocket reader loop of *)
(* include/cinatra/coro_http_client.hpp as a state machine.                *)
(*                                                                         *)
(* Bytes are one-character strings; a response header line is one token    *)
(* (the header parser lives outside this file and is modelled by what the  *)
(* reader consumes from it).  A coroutine is a frame record `co` whose pc  *)
(* names the suspension point it waits at; every action is the code from   *)
(* one suspension point to the next.                                       *)
(***************************************************************************)
EXTENDS Integers, Sequences, FiniteSets, TLC

----------------------------------------------------------------------------
(* Bounds of the model *)

\* longest chunk / body payload the server sends
MaxPayload == 2
\* most chunks in one chunked body
MaxChunks == 2
\* most timeout coroutines alive at once (one per operation that armed one)
MaxTimeouts == 2
\* most operations (request, upload, download, ws_connect) in one behaviour
MaxOps == 2
\* most writes one upload makes
MaxWrites == 12
\* most frames the server sends on one WebSocket
MaxFrames == 2

----------------------------------------------------------------------------
(* Bytes and strings *)

CR == "\r"
LF == "\n"
CRCF == <<CR, LF>>
TWO_CRCF == <<CR, LF, CR, LF>>

Min(a, b) == IF a < b THEN a ELSE b

\* std::string::find / asio read_until's match: the position just past the
\* first occurrence of delim in buf, 0 when there is none
FindEnd(buf, delim) ==
  LET hits == { p \in Len(delim)..Len(buf) :
                  SubSeq(buf, p - Len(delim) + 1, p) = delim }
  IN IF hits = {} THEN 0 ELSE CHOOSE p \in hits : \A q \in hits : p <= q

\* asio::streambuf::consume(n): drops min(n, size) bytes from the front
consume(buf, n) == SubSeq(buf, Min(n, Len(buf)) + 1, Len(buf))

\* the first n bytes of the buffer (a string_view{data_ptr, n} on it)
view(buf, n) == SubSeq(buf, 1, Min(n, Len(buf)))

RECURSIVE Concat(_)
Concat(ss) == IF ss = <<>> THEN <<>> ELSE Head(ss) \o Concat(Tail(ss))

----------------------------------------------------------------------------
(* Error codes *)

NoErr == "ok"
ProtocolError == "protocol_error"
TimedOut == "timed_out"
NoSuchFile == "no_such_file_or_directory"
InvalidArgument == "invalid_argument"
ConnRefused == "connection_refused"
BrokenPipe == "broken_pipe"
ReadEof == "eof"
HandshakeFailed == "handshake_failed"

----------------------------------------------------------------------------
(* URIs: check_scheme and the URI parser *)

Http == <<"h", "t", "t", "p", ":", "/", "/">>
Https == <<"h", "t", "t", "p", "s", ":", "/", "/">>
Ws == <<"w", "s", ":", "/", "/">>
Wss == <<"w", "s", "s", ":", "/", "/">>

\* host names the tests connect to; "^" is a character no host may hold
Hosts == {"a", "b"}

npos == -1

\* std::string::find_first_of(chars): 0-based index of the first character of
\* url that is one of chars, npos when there is none
find_first_of(url, chars) ==
  LET hits == { i \in 1..Len(url) : url[i] \in chars }
  IN IF hits = {} THEN npos
     ELSE (CHOOSE i \in hits : \A j \in hits : i <= j) - 1

Chars(s) == { s[i] : i \in 1..Len(s) }

check_scheme(url) ==
  LET pos_http == find_first_of(url, Chars(Http))
      pos_https == find_first_of(url, Chars(Https))
      pos_ws == find_first_of(url, Chars(Ws))
      pos_wss == find_first_of(url, Chars(Wss))
      has_http_scheme ==
        \/ (pos_http # npos /\ pos_http = 0)
        \/ (pos_https # npos /\ pos_https = 0)
        \/ (pos_ws # npos /\ pos_ws = 0)
        \/ (pos_wss # npos /\ pos_wss = 0)
  IN IF ~has_http_scheme THEN Http \o url ELSE url

StartsWith(s, prefix) ==
  Len(s) >= Len(prefix) /\ SubSeq(s, 1, Len(prefix)) = prefix

\* uri_t::parse_from (uri.hpp): scheme "://" host; fails on anything else
SchemeOf(uri) ==
  IF StartsWith(uri, Https) THEN Https
  ELSE IF StartsWith(uri, Http) THEN Http
  ELSE IF StartsWith(uri, Wss) THEN Wss
  ELSE IF StartsWith(uri, Ws) THEN Ws
  ELSE <<>>

parse_from(uri) ==
  LET scheme == SchemeOf(uri)
      rest == SubSeq(uri, Len(scheme) + 1, Len(uri))
      ok == scheme # <<>> /\ Len(rest) = 1 /\ rest[1] \in Hosts
  IN [ok |-> ok,
      host |-> IF ok THEN rest[1] ELSE "",
      is_ssl |-> ok /\ scheme \in {Https, Wss},
      is_websocket |-> ok /\ scheme \in {Ws, Wss}]

\* handle_uri: {false, {}} with data = {protocol_error, 404} when the parse
\* fails, {true, u} otherwise
handle_uri(data, uri) ==
  LET u == parse_from(uri)
  IN [ok |-> u.ok,
      u |-> u,
      data |-> IF u.ok THEN data
               ELSE [data EXCEPT !.net_err = ProtocolError, !.status = 404]]

----------------------------------------------------------------------------
(* Response headers: the tokens on the wire and what http_parser reports *)

StatusTokens ==
  {"HTTP/1.1 101", "HTTP/1.1 200", "HTTP/1.1 206", "HTTP/1.1 301",
   "HTTP/1.1 404"}

StatusTok(s) ==
  CASE s = 101 -> "HTTP/1.1 101"
    [] s = 200 -> "HTTP/1.1 200"
    [] s = 206 -> "HTTP/1.1 206"
    [] s = 301 -> "HTTP/1.1 301"
    [] s = 404 -> "HTTP/1.1 404"

StatusOfTok(t) ==
  CASE t = "HTTP/1.1 101" -> 101
    [] t = "HTTP/1.1 200" -> 200
    [] t = "HTTP/1.1 206" -> 206
    [] t = "HTTP/1.1 301" -> 301
    [] t = "HTTP/1.1 404" -> 404

ContentLengthTok(n) ==
  CASE n = 0 -> "Content-Length: 0"
    [] n = 1 -> "Content-Length: 1"
    [] n = 2 -> "Content-Length: 2"
    [] n = 3 -> "Content-Length: 3"
    [] n = 4 -> "Content-Length: 4"

ContentLengthOfTok(t) ==
  CASE t = "Content-Length: 0" -> 0
    [] t = "Content-Length: 1" -> 1
    [] t = "Content-Length: 2" -> 2
    [] t = "Content-Length: 3" -> 3
    [] t = "Content-Length: 4" -> 4

ContentLengthTokens == { ContentLengthTok(n) : n \in 0..4 }

ConnectionCloseTok == "Connection: close"
ChunkedTok == "Transfer-Encoding: chunked"
AcceptRangesTok == "Accept-Ranges: bytes"
LocationTok == "Location: http://b"
LocationValue == Http \o <<"b">>

HeaderTokens ==
  ContentLengthTokens
    \cup {ConnectionCloseTok, ChunkedTok, AcceptRangesTok, LocationTok}

\* http_parser::parse_response over the first header_size bytes of the read
\* buffer, with the accessors handle_read uses; ret < 0 when the bytes are
\* no response header
parse_response(buf, header_size) ==
  LET lines == SubSeq(buf, 2, header_size - Len(TWO_CRCF))
      has(tok) == \E i \in 1..Len(lines) : lines[i] = tok
      lens == { i \in 1..Len(lines) : lines[i] \in ContentLengthTokens }
      valid == /\ header_size >= 1 + Len(TWO_CRCF)
               /\ header_size <= Len(buf)
               /\ buf[1] \in StatusTokens
               /\ \A i \in 1..Len(lines) : lines[i] \in HeaderTokens
  IN IF ~valid
     THEN [ret |-> -1, status |-> 0, keep_alive |-> FALSE, is_chunked |-> FALSE,
           is_ranges |-> FALSE, is_location |-> FALSE, body_len |-> 0]
     ELSE [ret |-> header_size,
           status |-> StatusOfTok(buf[1]),
           keep_alive |-> ~has(ConnectionCloseTok),
           is_chunked |-> has(ChunkedTok),
           is_ranges |-> has(AcceptRangesTok),
           is_location |-> has(LocationTok),
           body_len |-> IF lens = {} THEN 0
                        ELSE ContentLengthOfTok(lines[CHOOSE i \in lens : TRUE])]

HexDigits == <<"0", "1", "2", "3", "4", "5", "6", "7", "8", "9",
               "a", "b", "c", "d", "e", "f">>

HexVal(c) == (CHOOSE i \in 1..16 : HexDigits[i] = c) - 1

IsHex(c) == \E i \in 1..16 : HexDigits[i] = c

\* hex_to_int: the value of the leading run of hex digits, -1 when the line
\* does not start with one
RECURSIVE HexRun(_, _)
HexRun(s, acc) ==
  IF s = <<>> \/ ~IsHex(Head(s)) THEN acc
  ELSE HexRun(Tail(s), acc * 16 + HexVal(Head(s)))

hex_to_int(s) == IF s = <<>> \/ ~IsHex(Head(s)) THEN -1 ELSE HexRun(s, 0)

\* the hex text of a chunk size below 16
Hex(n) == <<HexDigits[n + 1]>>

----------------------------------------------------------------------------
(* The server: the responses it may send *)

\* the i-th byte of a body; bodies hold CR, LF and a hex digit so that a
\* reader that looked for delimiters inside a payload would be caught
Byte(i) ==
  CASE i % 4 = 1 -> "x"
    [] i % 4 = 2 -> CR
    [] i % 4 = 3 -> LF
    [] i % 4 = 0 -> "1"

Payload(from, n) == [i \in 1..n |-> Byte(from + i - 1)]

RECURSIVE Sum(_)
Sum(ns) == IF ns = <<>> THEN 0 ELSE Head(ns) + Sum(Tail(ns))

\* a response: sizes is the chunk sizes of a chunked body, or <<n>> for a
\* fixed body of n bytes
BodyOf(r) == Payload(1, Sum(r.sizes))

\* a chunk-size line that is no hex number: the text "-1"
BadSizeLine == <<"-", "1">>

\* the chunks of the given sizes and the zero chunk; a negative entry of
\* sizes stands for a chunk-size line that does not parse
RECURSIVE ChunkBytes(_, _)
ChunkBytes(sizes, from) ==
  IF sizes = <<>> THEN <<"0">> \o CRCF \o CRCF
  ELSE IF Head(sizes) < 0
  THEN BadSizeLine \o CRCF \o ChunkBytes(Tail(sizes), from)
  ELSE Hex(Head(sizes)) \o CRCF \o Payload(from, Head(sizes)) \o CRCF
         \o ChunkBytes(Tail(sizes), from + Head(sizes))

HeaderBytes(r) ==
  <<StatusTok(r.status)>>
    \o (IF r.close THEN <<ConnectionCloseTok>> ELSE <<>>)
    \o (IF r.chunked THEN <<ChunkedTok>>
        ELSE <<ContentLengthTok(Sum(r.sizes))>>)
    \o (IF r.ranges THEN <<AcceptRangesTok>> ELSE <<>>)
    \o (IF r.location THEN <<LocationTok>> ELSE <<>>)
    \o TWO_CRCF

\* the bytes of response r to a request with the given method (a HEAD
\* response carries the headers only)
Encode(r, method) ==
  HeaderBytes(r)
    \o (IF method = "HEAD" THEN <<>>
        ELSE IF r.chunked THEN ChunkBytes(r.sizes, 1)
        ELSE BodyOf(r))

SizeLists(maxChunks, maxPayload) ==
  UNION { [1..n -> 1..maxPayload] : n \in 0..maxChunks }

Response(status, close, chunked, ranges, location, sizes) ==
  [status |-> status, close |-> close, chunked |-> chunked, ranges |-> ranges,
   location |-> location, sizes |-> sizes]

\* every response within the bounds
AllResponses ==
  { Response(s, c, TRUE, FALSE, l, sz) :
      s \in {200, 301}, c \in BOOLEAN, l \in BOOLEAN,
      sz \in SizeLists(MaxChunks, MaxPayload) }
  \cup
  { Response(s, c, FALSE, rg, l, <<n>>) :
      s \in {200, 206, 301}, c \in BOOLEAN, rg \in BOOLEAN, l \in BOOLEAN,
      n \in 0..MaxPayload }

----------------------------------------------------------------------------
(* State *)

VARIABLES
  has_closed_,             \* std::atomic<bool> has_closed_
  socket_,                 \* the TCP socket: open?, peer host, bytes the peer
                           \* has sent that no read has taken yet
  read_buf_,               \* asio::streambuf read_buf_
  req_headers_,            \* pending user headers, a sequence of <<key, val>>
  form_data_,              \* the multipart registry, part name -> part
  resp_chunk_str_,         \* accumulator of a chunked body
  redirect_uri_,
  enable_follow_redirect_,
  enable_timeout_,
  max_single_part_size_,
  enable_ssl,              \* the build defines CINATRA_ENABLE_SSL
  use_ssl_,                \* init_ssl has set up ssl_stream_
  is_timeout_,
  timeouts,                \* the timeout() coroutines that have not finished
  promise,                 \* the notifier start_timer returned to the
                           \* running operation: "none", "pending", "set"
  co,                      \* the frame of the running operation
  ret,                     \* what the operation that has just returned
                           \* gave its caller, with the client's state at
                           \* that moment; NoRet once the caller moves on
  ws,                      \* the WebSocket reader loop and its callbacks
  files,                   \* the file system: file name -> size on disk
  catalogue,               \* the responses the server may send
  life,                    \* io_ctx_, work_, io_thd_ and the destructor
  last_add,                \* the add_header call that has just returned
  ops                      \* the number of operations the caller has started

conn_vars == <<has_closed_, socket_, read_buf_>>
cfg_vars ==
  <<enable_follow_redirect_, enable_timeout_, max_single_part_size_,
    enable_ssl, use_ssl_>>
timer_vars == <<is_timeout_, timeouts, promise>>
env_vars == <<files, catalogue, life>>

vars ==
  <<has_closed_, socket_, read_buf_, req_headers_, form_data_,
    resp_chunk_str_, redirect_uri_, enable_follow_redirect_, enable_timeout_,
    max_single_part_size_, enable_ssl, use_ssl_, is_timeout_, timeouts,
    promise, co, ret, ws,
    files, catalogue, life, last_add, ops>>

\* resp_data{}
EmptyData ==
  [net_err |-> NoErr, status |-> 0, resp_body |-> <<>>, eof |-> FALSE]

ClosedSocket == [open |-> FALSE, peer |-> "", wire |-> <<>>]

IdleCo ==
  [pc |-> "idle", op |-> "", method |-> "", uri |-> <<>>, round |-> 0,
   arg |-> <<>>,           \* the URI the caller passed to async_request
   is_file |-> FALSE, ec |-> NoErr, size |-> 0,
   is_keep_alive |-> FALSE, is_ranges |-> FALSE, content_len |-> 0,
   chunk_size |-> 0, data |-> EmptyData,
   stream |-> <<>>,        \* what the operation wrote to ctx.stream
   delivered |-> <<>>,     \* chunk payload bytes handed to sink or accumulator
   resps |-> <<>>,         \* the responses the server chose, in order
   sent |-> <<>>,          \* the requests written, in order
   fired |-> "",           \* where the operation stood when the deadline
                           \* it armed fired, "" while it has not
   stray |-> "",           \* where it stood when the deadline an earlier
                           \* operation armed fired, "" while none has
   buffered |-> 0,         \* bytes in read_buf_ after the response header
   body_reads |-> <<>>,    \* sizes of the reads issued for a fixed body
   consumed |-> 0,         \* bytes handle_entire_content consumed
   bad_chunk |-> FALSE,    \* hex_to_int gave a negative chunk size
   new_conn |-> FALSE,     \* the operation connected the socket
   shaken |-> FALSE,       \* a TLS handshake was made on it and succeeded
   io |-> {},              \* the kinds of socket operation it has started
   part |-> 0,             \* async_upload: index of the part being sent
   left_size |-> 0, file_pos |-> 0,
   gcount |-> 0,           \* bytes file.read gave for the last slice
   announced |-> 0,        \* the Content-Length async_upload computed
   writes |-> <<>>]        \* the writes async_upload made: kind and length

NoRet == [op |-> "none"]

NoAdd == [called |-> FALSE]

\* the client the default constructor made: it owns io_ctx_, the worker
\* thread io_thd_ runs io_ctx_->run() and work_ keeps run() from returning
Running ==
  [io_ctx |-> "client",    \* who owns io_ctx_: "client", "helper", "gone"
   work_ |-> TRUE,         \* work_ holds the keep-alive sentinel
   io_thd |-> "running",   \* the worker: "running", or "exited" from run()
   posted |-> 0,           \* close_socket handlers queued on the executor
   dtor |-> "none",        \* the destructor: "none", "drop", "join", "done"
   on_worker |-> FALSE,    \* the destructor runs on the worker thread
   was_open |-> FALSE,     \* has_closed_ was false when it started
   joiner |-> "none",      \* the thread that calls io_thd.join()
   helper |-> "none",      \* the detached thread: "none", "join", "done"
   events |-> <<>>]        \* the steps of the destruction, in order

\* no reader loop; no callback registered
WsOff ==
  [pc |-> "off", header_size |-> 2, is_close_frame |-> FALSE,
   payload_len |-> 0, size_to_read |-> 0,
   on_ws_msg_ |-> FALSE, on_ws_close_ |-> FALSE,
   streamed |-> FALSE,     \* the server has sent its frames
   closes |-> 0,           \* close frames the loop has received
   texts |-> 0,            \* other frames the loop has received
   close_cb |-> FALSE,     \* on_ws_close_ was set when the close frame came
   close_len |-> 0,        \* payload length of the close frame received
   upgrade_err |-> NoErr,  \* net_err of the upgrade request the loop
                           \* was started after
   read_err |-> NoErr,     \* the error of the read that ended the loop
   msg_cb |-> FALSE,       \* on_ws_msg_ was set when that read failed
   exit_closed |-> FALSE,  \* has_closed_ when the loop returned
   events |-> <<>>]        \* the callbacks and the close reply of the loop

\* async_read_ws().start(): the loop runs to its first read
start_reader(w) ==
  [w EXCEPT !.pc = "read_header", !.header_size = 2, !.streamed = FALSE,
            !.closes = 0, !.texts = 0, !.close_cb = FALSE,
            !.close_len = 0, !.read_err = NoErr, !.msg_cb = FALSE,
            !.exit_closed = FALSE, !.events = <<>>]

----------------------------------------------------------------------------
(* add_header *)

HasKey(headers, key) == \E i \in 1..Len(headers) : headers[i][1] = key

\* an add_header that refuses only the empty key
add_header_accepts(headers, key, val) == key # ""

\* the value add_header returns
add_header_result(headers, key, val) ==
  IF key = "" THEN FALSE
  ELSE IF key = "Host" THEN FALSE
  ELSE IF HasKey(headers, key) THEN FALSE
  ELSE TRUE

\* the header list after add_header
add_header_list(headers, key, val) ==
  IF add_header_result(headers, key, val)
  THEN Append(headers, <<key, val>>)
  ELSE headers

add_header(key, val) ==
  /\ co.pc = "idle"
  /\ req_headers_' = add_header_list(req_headers_, key, val)
  /\ last_add' = [called |-> TRUE, key |-> key, val |-> val,
                  before |-> req_headers_,
                  result |-> add_header_result(req_headers_, key, val)]
  /\ ret' = NoRet
  /\ UNCHANGED <<conn_vars, cfg_vars, timer_vars, env_vars, form_data_,
                 resp_chunk_str_, redirect_uri_, co, ws, ops>>

----------------------------------------------------------------------------
(* Configuration *)

set_timeout ==
  /\ co.pc = "idle"
  /\ ~enable_timeout_
  /\ enable_timeout_' = TRUE
  /\ ret' = NoRet
  /\ last_add' = NoAdd
  /\ UNCHANGED <<conn_vars, timer_vars, env_vars, req_headers_, form_data_,
                 resp_chunk_str_, redirect_uri_, enable_follow_redirect_,
                 max_single_part_size_, enable_ssl, use_ssl_, co, ws, ops>>

enable_auto_redirect(enable) ==
  /\ co.pc = "idle"
  /\ enable_follow_redirect_ # enable
  /\ enable_follow_redirect_' = enable
  /\ ret' = NoRet
  /\ last_add' = NoAdd
  /\ UNCHANGED <<conn_vars, timer_vars, env_vars, req_headers_, form_data_,
                 resp_chunk_str_, redirect_uri_, enable_timeout_,
                 max_single_part_size_, enable_ssl, use_ssl_, co, ws, ops>>

----------------------------------------------------------------------------
(* Socket I/O: the outcomes of one asynchronous operation *)

\* the bytes a failing read leaves in the buffer: it fails before any byte
\* arrived, or after the last byte the peer sent
FailAfter(sock, limit) ==
  IF sock.open THEN {0, Min(limit, Len(sock.wire))} ELSE {0}

\* asio async_read_until(socket, buf, delim).  A match already in the
\* buffer completes at once without touching the socket.  Otherwise bytes
\* arrive in pieces of any size until the buffer holds the delimiter, so the
\* buffer may end up holding any number of bytes past it; or the read fails
\* with bytes in the buffer that do not complete the match.
async_read_until(buf, sock, delim) ==
  IF FindEnd(buf, delim) > 0
  THEN { [ec |-> NoErr, size |-> FindEnd(buf, delim), buf |-> buf,
          wire |-> sock.wire] }
  ELSE { [ec |-> NoErr,
          size |-> FindEnd(buf \o SubSeq(sock.wire, 1, k), delim),
          buf |-> buf \o SubSeq(sock.wire, 1, k),
          wire |-> SubSeq(sock.wire, k + 1, Len(sock.wire))] :
           k \in { k \in 1..Len(sock.wire) :
                     /\ sock.open
                     /\ FindEnd(buf \o SubSeq(sock.wire, 1, k), delim) > 0 } }
       \cup
       { [ec |-> ReadEof, size |-> 0,
          buf |-> buf \o SubSeq(sock.wire, 1, k),
          wire |-> SubSeq(sock.wire, k + 1, Len(sock.wire))] :
           k \in { k \in FailAfter(sock, Len(sock.wire)) :
                     FindEnd(buf \o SubSeq(sock.wire, 1, k), delim) = 0 } }

\* asio async_read(socket, buf, transfer_exactly(n)): n more bytes, or a
\* failure after fewer
async_read(buf, sock, n) ==
  { [ec |-> NoErr, size |-> n,
     buf |-> buf \o SubSeq(sock.wire, 1, n),
     wire |-> SubSeq(sock.wire, n + 1, Len(sock.wire))] :
      k \in { k \in {n} : sock.open /\ n <= Len(sock.wire) } }
  \cup
  { [ec |-> ReadEof, size |-> k,
     buf |-> buf \o SubSeq(sock.wire, 1, k),
     wire |-> SubSeq(sock.wire, k + 1, Len(sock.wire))] :
      k \in { k \in FailAfter(sock, n - 1) : k < n } }

----------------------------------------------------------------------------
(* The response reader: handle_read, handle_entire_content, handle_chunked *)

\* the tail of handle_read: a non-empty accumulator becomes the body
chunk_body(data, chunk) ==
  IF chunk # <<>> THEN [data EXCEPT !.resp_body = chunk] ELSE data

\* handle_entire_content on frame f with read buffer buf
handle_entire_content(f, buf, content_len, is_ranges) ==
  LET written == IF content_len > 0 /\ is_ranges /\ f.is_file
                 THEN f.stream \o view(buf, content_len)
                 ELSE f.stream
      body == IF content_len > 0 THEN view(buf, content_len)
              ELSE f.data.resp_body
      buf1 == IF content_len > 0 THEN consume(buf, content_len) ELSE buf
  IN [co |-> [f EXCEPT !.stream = written,
                       !.consumed = Len(buf) - Len(buf1),
                       !.data = [f.data EXCEPT !.resp_body = body,
                                               !.eof = (Len(buf1) = 0)]],
      buf |-> buf1]

\* is_keep_alive after the header of a response that is not to a HEAD
keep_alive_of(p) ==
  IF p.is_chunked THEN TRUE
  ELSE IF p.is_ranges THEN TRUE
  ELSE p.keep_alive

\* a capture that keeps the URI of an earlier response when the header has
\* no Location
captured_redirect_kept(p) ==
  IF p.is_location THEN LocationValue ELSE redirect_uri_

\* redirect_uri_ after the header of a fixed-length response
captured_redirect(p) == IF p.is_location THEN LocationValue ELSE <<>>

\* handle_read from the completion o of async_read_until(TWO_CRCF) to its
\* next suspension point or its return ("wait_timer" is the caller's next
\* step): the frame, the read buffer and redirect_uri_ afterwards
handle_read_header(f, o, chunk, ruri) ==
  LET p == parse_response(o.buf, o.size)
      buf1 == consume(o.buf, o.size)
      f0 == [f EXCEPT !.size = o.size, !.data = EmptyData,
                      !.buffered = Len(buf1), !.body_reads = <<>>,
                      !.consumed = 0, !.bad_chunk = FALSE]
      f1 == [f0 EXCEPT !.data.status = p.status]
      f2 == [f1 EXCEPT !.is_keep_alive = keep_alive_of(p),
                       !.is_ranges = p.is_ranges,
                       !.content_len = p.body_len]
      whole == handle_entire_content(f2, buf1, p.body_len, p.is_ranges)
  IN IF o.ec # NoErr
     THEN [co |-> [f0 EXCEPT !.ec = o.ec, !.pc = "wait_timer",
                             !.data = chunk_body(EmptyData, chunk)],
           buf |-> o.buf, redirect_uri |-> ruri]
     ELSE IF p.ret < 0
     THEN [co |-> [f0 EXCEPT !.ec = ProtocolError, !.pc = "wait_timer",
                             !.data = chunk_body(EmptyData, chunk)],
           buf |-> o.buf, redirect_uri |-> ruri]
     ELSE IF f.method = "HEAD"
     THEN [co |-> [f1 EXCEPT !.ec = NoErr, !.pc = "wait_timer"],
           buf |-> buf1, redirect_uri |-> ruri]
     ELSE IF p.is_chunked
     THEN [co |-> [f2 EXCEPT !.ec = NoErr, !.pc = "chunk_line"],
           buf |-> buf1, redirect_uri |-> ruri]
     ELSE IF p.body_len <= Len(buf1)
     THEN [co |-> [whole.co EXCEPT
                     !.ec = NoErr, !.pc = "wait_timer",
                     !.data = chunk_body(whole.co.data, chunk)],
           buf |-> whole.buf, redirect_uri |-> captured_redirect(p)]
     ELSE [co |-> [f2 EXCEPT !.ec = NoErr, !.pc = "read_body",
                             !.body_reads = <<p.body_len - Len(buf1)>>,
                             !.size = p.body_len - Len(buf1)],
           buf |-> buf1, redirect_uri |-> captured_redirect(p)]

\* handle_read from the completion o of the read of the rest of the body
handle_read_body(f, o, chunk) ==
  LET whole == handle_entire_content(f, o.buf, f.content_len, f.is_ranges)
  IN IF o.ec # NoErr
     THEN [co |-> [f EXCEPT !.ec = o.ec, !.size = o.size, !.pc = "wait_timer",
                            !.data = chunk_body(f.data, chunk)],
           buf |-> o.buf]
     ELSE [co |-> [whole.co EXCEPT
                     !.ec = NoErr, !.size = o.size, !.pc = "wait_timer",
                     !.data = chunk_body(whole.co.data, chunk)],
           buf |-> whole.buf]

\* handle_chunked hands chunk_size bytes of buf to the sink (a download) or
\* to the accumulator, then consumes them and the CRLF after them
deliver_chunk(f, buf, chunk, chunk_size) ==
  [co |-> [f EXCEPT
             !.stream = IF f.is_file THEN f.stream \o view(buf, chunk_size)
                        ELSE f.stream,
             !.delivered = f.delivered \o view(buf, chunk_size),
             !.pc = "chunk_line"],
   chunk |-> IF f.is_file THEN chunk ELSE chunk \o view(buf, chunk_size),
   buf |-> consume(buf, chunk_size + Len(CRCF))]

\* handle_chunked from the completion o of async_read_until(CRCF)
handle_chunked_line(f, o, chunk) ==
  LET buf_size == Len(o.buf)
      additional_size == buf_size - o.size
      size_str == view(o.buf, o.size - Len(CRCF))
      chunk_size == hex_to_int(size_str)
      buf1 == consume(o.buf, o.size)
  IN IF o.ec # NoErr
     THEN [co |-> [f EXCEPT !.ec = o.ec, !.pc = "wait_timer",
                            !.data = chunk_body(f.data, chunk)],
           buf |-> o.buf, chunk |-> chunk]
     ELSE IF chunk_size < 0
     THEN [co |-> [f EXCEPT !.ec = InvalidArgument, !.pc = "wait_timer",
                            !.bad_chunk = TRUE,
                            !.data = chunk_body(f.data, chunk)],
           buf |-> buf1, chunk |-> chunk]
     ELSE IF chunk_size = 0
     THEN [co |-> [f EXCEPT
                     !.ec = NoErr, !.pc = "wait_timer",
                     !.data = chunk_body([f.data EXCEPT !.status = 200,
                                                        !.eof = TRUE], chunk)],
           buf |-> consume(buf1, Len(CRCF)), chunk |-> chunk]
     ELSE IF additional_size < chunk_size + 2
     THEN [co |-> [f EXCEPT !.pc = "chunk_data", !.chunk_size = chunk_size,
                            !.size = chunk_size + 2 - additional_size],
           buf |-> buf1, chunk |-> chunk]
     ELSE deliver_chunk(f, buf1, chunk, chunk_size)

\* handle_chunked from the completion o of the read of the rest of a chunk
handle_chunked_data(f, o, chunk) ==
  IF o.ec # NoErr
  THEN [co |-> [f EXCEPT !.ec = o.ec, !.pc = "wait_timer",
                         !.data = chunk_body(f.data, chunk)],
        buf |-> o.buf, chunk |-> chunk]
  ELSE deliver_chunk(f, o.buf, chunk, f.chunk_size)

----------------------------------------------------------------------------
(* The deadline: start_timer, timeout, wait_timer *)

RemoveAt(seq, i) == SubSeq(seq, 1, i - 1) \o SubSeq(seq, i + 1, Len(seq))

\* start_timer launches timeout() on the executor and hands back the promise
start_timer_timeouts(ts) ==
  IF enable_timeout_ THEN Append(ts, [st |-> "scheduled", live |-> TRUE])
  ELSE ts

start_timer_promise == IF enable_timeout_ THEN "pending" ELSE "none"

CanArm == ~enable_timeout_ \/ Len(timeouts) < MaxTimeouts

\* timer_.cancel(): the pending wait completes with operation_aborted, unless
\* the timer has expired already and its handler is only waiting to run
cancel_timer(ts, st) ==
  [i \in DOMAIN ts |->
     IF ts[i].st = "armed" THEN [ts[i] EXCEPT !.st = st] ELSE ts[i]]

\* the promise of an operation that has returned is gone
Orphaned(ts) == [i \in DOMAIN ts |-> [ts[i] EXCEPT !.live = FALSE]]

\* promise.setValue() in timeout(): on the promise of the running operation,
\* or through a reference to the promise of an operation that has returned
\* (undefined: it may hit nothing, or the frame the running operation now
\* occupies)
SetValue(live) ==
  IF live THEN {"set"}
  ELSE IF promise = "pending" THEN {"pending", "set"}
  ELSE {promise}

HandlerPending == \E i \in DOMAIN timeouts : timeouts[i].st \in {"cancelled", "expired"}

\* timeout() starts on the executor: timer.expires_after(), which cancels a
\* wait pending on the timer, then the wait
TimeoutStart(i) ==
  /\ timeouts[i].st = "scheduled"
  /\ timeouts' = [j \in DOMAIN timeouts |->
                    IF j = i THEN [timeouts[j] EXCEPT !.st = "armed"]
                    ELSE IF timeouts[j].st = "armed"
                    THEN [timeouts[j] EXCEPT !.st = "cancelled"]
                    ELSE timeouts[j]]
  /\ UNCHANGED <<conn_vars, cfg_vars, env_vars, req_headers_, form_data_,
                 resp_chunk_str_, redirect_uri_, is_timeout_, promise, co,
                 ret, ws, last_add, ops>>

\* timeout() resumes with the timer expired: is_timeout_ = true,
\* close_socket(), promise.setValue().  Handlers run in the order they were
\* queued, so an expiry waits for the handlers pending before it.
TimeoutExpire(i) ==
  /\ \/ timeouts[i].st = "expired"
     \/ timeouts[i].st = "armed" /\ ~HandlerPending
  /\ is_timeout_' = TRUE
  /\ has_closed_' = TRUE
  /\ socket_' = ClosedSocket
  /\ promise' \in SetValue(timeouts[i].live)
  /\ co' = IF timeouts[i].live THEN [co EXCEPT !.fired = co.pc]
           ELSE IF co.pc # "idle" THEN [co EXCEPT !.stray = co.pc]
           ELSE co
  /\ timeouts' = RemoveAt(timeouts, i)
  /\ UNCHANGED <<cfg_vars, env_vars, read_buf_, req_headers_, form_data_,
                 resp_chunk_str_, redirect_uri_, ret, ws, last_add, ops>>

\* timeout() resumes with the wait cancelled: is_timeout_ = false,
\* promise.setValue()
TimeoutCancelled(i) ==
  /\ timeouts[i].st = "cancelled"
  /\ is_timeout_' = FALSE
  /\ promise' \in SetValue(timeouts[i].live)
  /\ timeouts' = RemoveAt(timeouts, i)
  /\ UNCHANGED <<conn_vars, cfg_vars, env_vars, req_headers_, form_data_,
                 resp_chunk_str_, redirect_uri_, co, ret, ws, last_add, ops>>

----------------------------------------------------------------------------
(* The request engine: async_request and its callers *)

is_redirect(data) == data.status > 299 /\ data.status <= 399

\* handle_result: the datum returned, and whether the socket is closed
handle_result_data(data, ec) ==
  IF ec # NoErr THEN [data EXCEPT !.net_err = ec, !.status = 404] ELSE data

handle_result_closes(ec, is_keep_alive) ==
  IF ec # NoErr THEN TRUE ELSE ~is_keep_alive

\* what the caller sees when operation f returns data
Returned(f, data, closed, headers, parts) ==
  [op |-> f.op, method |-> f.method, round |-> f.round, is_file |-> f.is_file,
   data |-> data, has_closed |-> closed, req_headers |-> headers,
   form_data |-> parts, stream |-> f.stream, delivered |-> f.delivered,
   resps |-> f.resps, sent |-> f.sent, fired |-> f.fired,
   stray |-> f.stray,
   announced |-> f.announced, writes |-> f.writes,
   buffered |-> f.buffered, body_reads |-> f.body_reads,
   consumed |-> f.consumed, bad_chunk |-> f.bad_chunk,
   uri |-> f.uri, arg |-> f.arg, new_conn |-> f.new_conn, shaken |-> f.shaken, io |-> f.io,
   follow |-> enable_follow_redirect_, timeout |-> enable_timeout_]

\* async_request up to its first suspension point: the frame afterwards
async_request_frame(f) ==
  LET uri1 == check_scheme(f.uri)
      h == handle_uri(EmptyData, uri1)
  IN [f EXCEPT !.uri = uri1, !.arg = f.uri,
               !.data = h.data, !.ec = NoErr, !.size = 0,
               !.is_keep_alive = FALSE, !.new_conn = FALSE, !.shaken = FALSE,
               !.pc = IF ~h.ok THEN "wait_timer"
                      ELSE IF has_closed_ THEN "connect"
                      ELSE "write"]

async_request(f) ==
  /\ CanArm
  /\ resp_chunk_str_' = <<>>
  /\ timeouts' = start_timer_timeouts(timeouts)
  /\ promise' = start_timer_promise
  /\ co' = async_request_frame(f)

\* async_get, async_head, async_post: one async_request each
Methods == [get |-> "GET", head |-> "HEAD", post |-> "POST"]

request(op, uri) ==
  /\ co.pc = "idle"
  /\ ops < MaxOps
  /\ ops' = ops + 1
  /\ async_request([IdleCo EXCEPT !.op = op, !.method = Methods[op],
                                  !.uri = uri, !.round = 1])
  /\ ret' = NoRet
  /\ last_add' = NoAdd
  /\ UNCHANGED <<conn_vars, cfg_vars, env_vars, req_headers_, form_data_,
                 redirect_uri_, is_timeout_, ws>>

\* async_download: the sink is opened first (file_ok: the open succeeds);
\* then one GET whose ctx.stream is the file.  A range only adds a Range
\* line to the request.
async_download(uri, file_ok) ==
  /\ co.pc = "idle"
  /\ ops < MaxOps
  /\ ops' = ops + 1
  /\ IF ~file_ok
     THEN /\ ret' = Returned([IdleCo EXCEPT !.op = "download", !.method = "GET",
                                            !.is_file = TRUE],
                             [EmptyData EXCEPT !.net_err = NoSuchFile,
                                               !.status = 404],
                             has_closed_, req_headers_, form_data_)
          /\ UNCHANGED <<resp_chunk_str_, timeouts, promise, co>>
     ELSE /\ async_request([IdleCo EXCEPT !.op = "download", !.method = "GET",
                                          !.uri = uri, !.round = 1,
                                          !.is_file = TRUE])
          /\ ret' = NoRet
  /\ last_add' = NoAdd
  /\ UNCHANGED <<conn_vars, cfg_vars, env_vars, req_headers_, form_data_,
                 redirect_uri_, is_timeout_, ws>>

\* the socket when async_connect reports success: connected, unless the
\* deadline closed it after the connect had completed
connected(f) ==
  IF f.fired # "" THEN ClosedSocket
  ELSE [open |-> TRUE, peer |-> parse_from(f.uri).host, wire |-> <<>>]

\* handle_shake: what it returns and whether a handshake was made.  A build
\* without CINATRA_ENABLE_SSL returns protocol_error; with it, a client
\* that init_ssl set up hands the stream to async_handshake, which succeeds
\* or fails, and a client it did not set up returns no error at once.
handle_shake(sock) ==
  IF ~enable_ssl THEN { [ec |-> ProtocolError, shaken |-> FALSE] }
  ELSE IF use_ssl_
  THEN { [ec |-> HandshakeFailed, shaken |-> FALSE] }
         \cup (IF sock.open THEN { [ec |-> NoErr, shaken |-> TRUE] } ELSE {})
  ELSE { [ec |-> NoErr, shaken |-> FALSE] }

\* init_ssl: ssl_stream_ is made over socket_ and use_ssl_ set
init_ssl ==
  /\ co.pc = "idle"
  /\ enable_ssl
  /\ ~use_ssl_
  /\ use_ssl_' = TRUE
  /\ ret' = NoRet
  /\ last_add' = NoAdd
  /\ UNCHANGED <<conn_vars, timer_vars, env_vars, req_headers_, form_data_,
                 resp_chunk_str_, redirect_uri_, enable_follow_redirect_,
                 enable_timeout_, max_single_part_size_, enable_ssl, co, ws,
                 ops>>

\* asio_util::async_connect completes; has_closed_ = false follows at once
\* unless the URI asks for the handshake first
Connect ==
  /\ co.pc = "connect"
  /\ \/ /\ socket_' = connected(co)
        /\ IF parse_from(co.uri).is_ssl
           THEN /\ co' = [co EXCEPT !.pc = "handshake", !.new_conn = TRUE,
                                    !.io = @ \cup {"connect"}]
                /\ UNCHANGED has_closed_
           ELSE /\ co' = [co EXCEPT !.pc = "write", !.new_conn = TRUE,
                                    !.io = @ \cup {"connect"}]
                /\ has_closed_' = FALSE
     \/ /\ co' = [co EXCEPT !.ec = ConnRefused, !.pc = "wait_timer",
                             !.io = @ \cup {"connect"}]
        /\ UNCHANGED <<has_closed_, socket_>>
  /\ UNCHANGED <<cfg_vars, timer_vars, env_vars, read_buf_, req_headers_,
                 form_data_, resp_chunk_str_, redirect_uri_, ret, ws,
                 last_add, ops>>

\* handle_shake returns to async_request: an error ends the request, else
\* has_closed_ = false and the request is written
HandleShake ==
  /\ co.pc = "handshake"
  /\ \E o \in handle_shake(socket_) :
       IF o.ec # NoErr
       THEN /\ co' = [co EXCEPT !.ec = o.ec, !.pc = "wait_timer",
                                !.io = @ \cup {"handshake"}]
            /\ UNCHANGED has_closed_
       ELSE /\ co' = [co EXCEPT !.shaken = o.shaken, !.pc = "write",
                                !.io = @ \cup {"handshake"}]
            /\ has_closed_' = FALSE
  /\ UNCHANGED <<cfg_vars, timer_vars, env_vars, socket_, read_buf_,
                 req_headers_, form_data_, resp_chunk_str_, redirect_uri_,
                 ret, ws, last_add, ops>>

\* build_request_header adds the Content-Type of the context to the
\* pending headers before it writes them
content_type_headers(headers, op) ==
  IF op = "post" THEN Append(headers, <<"Content-Type", "application/json">>)
  ELSE IF op = "upload"
  THEN Append(headers, <<"Content-Type", "multipart/form-data; boundary=">>)
  ELSE headers

\* prepare_request_str, then async_write completes
Write ==
  /\ co.pc = "write"
  /\ req_headers_' = content_type_headers(req_headers_, co.op)
  /\ \/ /\ socket_.open
        /\ \E r \in catalogue :
             /\ socket_' = [socket_ EXCEPT
                              !.wire = @ \o Encode(r, co.method)]
             /\ co' = [co EXCEPT
                         !.pc = "read_header",
                         !.io = @ \cup {"write"},
                         !.resps = Append(@, r),
                         !.sent = Append(@, [peer |-> socket_.peer,
                                             uri |-> co.uri,
                                             method |-> co.method,
                                             headers |-> req_headers_'])]
     \/ /\ co' = [co EXCEPT !.ec = BrokenPipe, !.pc = "wait_timer",
                             !.io = @ \cup {"write"}]
        /\ UNCHANGED socket_
  /\ UNCHANGED <<cfg_vars, timer_vars, env_vars, has_closed_, read_buf_,
                 form_data_, resp_chunk_str_, redirect_uri_, ret, ws,
                 last_add, ops>>

\* handle_read: async_read_until(TWO_CRCF) completes
ReadHeader ==
  /\ co.pc = "read_header"
  /\ \E o \in async_read_until(read_buf_, socket_, TWO_CRCF) :
       LET h == handle_read_header(co, o, resp_chunk_str_, redirect_uri_)
       IN /\ co' = [h.co EXCEPT !.io = @ \cup {"read"}]
          /\ read_buf_' = h.buf
          /\ redirect_uri_' = h.redirect_uri
          /\ socket_' = [socket_ EXCEPT !.wire = o.wire]
  /\ UNCHANGED <<cfg_vars, timer_vars, env_vars, has_closed_, req_headers_,
                 form_data_, resp_chunk_str_, ret, ws, last_add, ops>>

\* handle_read: async_read of the rest of a fixed-length body completes
ReadBody ==
  /\ co.pc = "read_body"
  /\ \E o \in async_read(read_buf_, socket_, co.size) :
       LET h == handle_read_body(co, o, resp_chunk_str_)
       IN /\ co' = [h.co EXCEPT !.io = @ \cup {"read"}]
          /\ read_buf_' = h.buf
          /\ socket_' = [socket_ EXCEPT !.wire = o.wire]
  /\ UNCHANGED <<cfg_vars, timer_vars, env_vars, has_closed_, req_headers_,
                 form_data_, resp_chunk_str_, redirect_uri_, ret, ws,
                 last_add, ops>>

\* handle_chunked: async_read_until(CRCF) completes
ChunkLine ==
  /\ co.pc = "chunk_line"
  /\ \E o \in async_read_until(read_buf_, socket_, CRCF) :
       LET h == handle_chunked_line(co, o, resp_chunk_str_)
       IN /\ co' = [h.co EXCEPT !.io = @ \cup {"read"}]
          /\ read_buf_' = h.buf
          /\ resp_chunk_str_' = h.chunk
          /\ socket_' = [socket_ EXCEPT !.wire = o.wire]
  /\ UNCHANGED <<cfg_vars, timer_vars, env_vars, has_closed_, req_headers_,
                 form_data_, redirect_uri_, ret, ws, last_add, ops>>

\* handle_chunked: async_read of the rest of a chunk completes
ChunkData ==
  /\ co.pc = "chunk_data"
  /\ \E o \in async_read(read_buf_, socket_, co.size) :
       LET h == handle_chunked_data(co, o, resp_chunk_str_)
       IN /\ co' = [h.co EXCEPT !.io = @ \cup {"read"}]
          /\ read_buf_' = h.buf
          /\ resp_chunk_str_' = h.chunk
          /\ socket_' = [socket_ EXCEPT !.wire = o.wire]
  /\ UNCHANGED <<cfg_vars, timer_vars, env_vars, has_closed_, req_headers_,
                 form_data_, redirect_uri_, ret, ws, last_add, ops>>


\* async_get after its first async_request returned data: follow the
\* redirect?
follows_redirect(f, data) ==
  /\ f.op = "get"
  /\ f.round = 1
  /\ ~(redirect_uri_ = <<>> \/ ~is_redirect(data))
  /\ enable_follow_redirect_

\* the headers left pending when async_request returns (its guard)
request_guard(headers) == <<>>

\* async_request after wait_timer gave errc: handle_result, the guard that
\* clears the pending headers, and the return to the caller.  ts is the
\* timeout coroutines left.
FinishRequest(errc, ts) ==
  LET ec == IF errc # NoErr THEN errc ELSE co.ec
      data == handle_result_data(co.data, ec)
      closes == handle_result_closes(ec, co.is_keep_alive)
  IN /\ has_closed_' = (closes \/ has_closed_)
     /\ socket_' = IF closes THEN ClosedSocket ELSE socket_
     /\ req_headers_' = request_guard(req_headers_)
     /\ form_data_' = IF co.op = "upload" THEN <<>> ELSE form_data_
     /\ ws' = IF co.op = "ws_connect"
              THEN [start_reader(ws) EXCEPT !.upgrade_err = data.net_err]
              ELSE ws
     /\ read_buf_' = IF co.op = "ws_connect" THEN <<>> ELSE read_buf_
     /\ timeouts' = Orphaned(ts)
     /\ promise' = "none"
     /\ IF follows_redirect(co, data)
        THEN /\ co' = [co EXCEPT !.pc = "redirect", !.data = data, !.ec = ec]
             /\ ret' = ret
        ELSE /\ co' = IdleCo
             /\ ret' = Returned(co, data, has_closed_', req_headers_',
                                form_data_')

\* a wait_timer that never reports the deadline
wait_timer_ignores(timed_out) == NoErr

\* the error code wait_timer returns once the promise is set
wait_timer(timed_out) == IF timed_out THEN TimedOut ELSE NoErr

\* wait_timer: without a timeout it returns at once; with one it cancels the
\* timer and awaits the promise, which may be set already
WaitTimer ==
  /\ co.pc = "wait_timer"
  /\ IF ~enable_timeout_
     THEN FinishRequest(NoErr, timeouts)
     ELSE \E st \in {"cancelled", "expired"} :
            IF promise = "set"
            THEN FinishRequest(wait_timer(is_timeout_),
                               cancel_timer(timeouts, st))
            ELSE /\ timeouts' = cancel_timer(timeouts, st)
                 /\ co' = [co EXCEPT !.pc = "await_promise"]
                 /\ UNCHANGED <<has_closed_, socket_, read_buf_,
                                req_headers_, form_data_, promise, ret, ws>>
  /\ UNCHANGED <<cfg_vars, env_vars, resp_chunk_str_, redirect_uri_,
                 is_timeout_, last_add, ops>>

\* wait_timer resumes with the promise set
AwaitPromise ==
  /\ co.pc = "await_promise"
  /\ promise = "set"
  /\ FinishRequest(wait_timer(is_timeout_), timeouts)
  /\ UNCHANGED <<cfg_vars, env_vars, resp_chunk_str_, redirect_uri_,
                 is_timeout_, last_add, ops>>

\* async_get re-issues the request against std::move(redirect_uri_)
Redirect ==
  /\ co.pc = "redirect"
  /\ async_request([co EXCEPT !.uri = redirect_uri_, !.round = 2])
  /\ redirect_uri_' = <<>>
  /\ UNCHANGED <<conn_vars, cfg_vars, env_vars, req_headers_, form_data_,
                 is_timeout_, ret, ws, last_add, ops>>

----------------------------------------------------------------------------
(* Multipart upload: the registry, multipart_content_len, send_single_part *)

BOUNDARY ==
  <<"-", "-", "C", "i", "n", "a", "t", "r", "a", "B", "o", "u", "n", "d",
    "a", "r", "y", "2", "B", "8", "F", "A", "F", "4", "A", "8", "0", "E",
    "D", "B", "3", "0", "7">>

ContentDispositionLit ==
  <<"C", "o", "n", "t", "e", "n", "t", "-", "D", "i", "s", "p", "o", "s",
    "i", "t", "i", "o", "n", ":", " ", "f", "o", "r", "m", "-", "d", "a",
    "t", "a", ";", " ", "n", "a", "m", "e", "=", "\"">>

FilenameLit ==
  <<";", " ", "f", "i", "l", "e", "n", "a", "m", "e", "=", "\"">>

ContentTypeLit ==
  <<"C", "o", "n", "t", "e", "n", "t", "-", "T", "y", "p", "e", ":", " ">>

Quote == <<"\"">>

\* the order of the characters part names are made of (their byte values)
Alphabet == <<".", "/", "a", "b", "t">>

Rank(c) == CHOOSE i \in 1..Len(Alphabet) : Alphabet[i] = c

\* std::string operator<
RECURSIVE LexLess(_, _)
LexLess(a, b) ==
  IF b = <<>> THEN FALSE
  ELSE IF a = <<>> THEN TRUE
  ELSE IF Rank(Head(a)) < Rank(Head(b)) THEN TRUE
  ELSE IF Rank(Head(a)) > Rank(Head(b)) THEN FALSE
  ELSE LexLess(Tail(a), Tail(b))

\* multipart_t{filename, content, size}, stored with its key; order is the
\* position of the call that added it among the calls that added a part
multipart_t(name, filename, content, size) ==
  [name |-> name, filename |-> filename, content |-> content, size |-> size,
   order |-> 0]

HasPart(form, name) == \E i \in 1..Len(form) : form[i].name = name

\* std::map::emplace: the registry in key order; an existing key keeps its
\* part
emplace(form, part) ==
  IF HasPart(form, part.name) THEN form
  ELSE LET before == SelectSeq(form, LAMBDA p : LexLess(p.name, part.name))
           after == SelectSeq(form, LAMBDA p : LexLess(part.name, p.name))
       IN before \o <<[part EXCEPT !.order = Len(form) + 1]>> \o after

\* std::filesystem::path(p).filename(): what follows the last "/"
LastIndex(s, c) ==
  LET hits == { i \in 1..Len(s) : s[i] = c }
  IN IF hits = {} THEN 0 ELSE CHOOSE i \in hits : \A j \in hits : j <= i

path_filename(p) == SubSeq(p, LastIndex(p, "/") + 1, Len(p))

\* std::filesystem::path(p).extension(): from the last "." of the file name,
\* empty when there is none or when it is the first character
path_extension(p) ==
  LET name == path_filename(p)
      dot == LastIndex(name, ".")
  IN IF name = <<".">> \/ name = <<".", ".">> \/ dot <= 1 THEN <<>>
     ELSE SubSeq(name, dot, Len(name))

\* g_content_type_map: the MIME type of an extension, <<>> when it has none
g_content_type_map(ext) ==
  IF ext = <<".", "t">> THEN <<"t", "/", "p">> ELSE <<>>

\* multipart_content_len over the registry
RECURSIVE parts_content_len(_)
parts_content_len(form) ==
  IF form = <<>> THEN 0
  ELSE LET part == Head(form)
           ext == path_extension(part.filename)
           mime == g_content_type_map(ext)
       IN 75 + (Len(part.name) + 1)
            + (IF part.filename # <<>>
               THEN (12 + Len(part.filename) + 1)
                      + (IF mime # <<>> THEN 14 + Len(mime) ELSE 0)
               ELSE 0)
            + 4
            + (part.size + 2)
            + parts_content_len(Tail(form))

multipart_content_len(form) == parts_content_len(form) + (6 + Len(BOUNDARY))

\* the head send_single_part writes before the content of a part
part_content_head(part) ==
  LET is_file == part.filename # <<>>
      short_name == path_filename(part.filename)
      mime == g_content_type_map(path_extension(short_name))
  IN <<"-", "-">> \o BOUNDARY \o CRCF
       \o ContentDispositionLit \o part.name \o Quote
       \o (IF is_file
           THEN FilenameLit \o short_name \o Quote
                  \o (IF mime # <<>> THEN ContentTypeLit \o mime ELSE <<>>)
           ELSE <<>>)
       \o TWO_CRCF

\* the closing boundary async_upload writes after the parts
last_part == <<"-", "-">> \o BOUNDARY \o <<"-", "-">> \o CRCF

\* std::filesystem::exists / std::ifstream: the file system holds the path
exists(fs, path) == path \in DOMAIN fs

\* the bytes written for the body of an upload, from the writes it made
RECURSIVE written_len(_)
written_len(writes) ==
  IF writes = <<>> THEN 0
  ELSE (IF Head(writes).kind = "header" THEN 0 ELSE Head(writes).len)
         + written_len(Tail(writes))

\* add_str_part / add_file_part: the value returned
add_str_part_result(form, name) == ~HasPart(form, name)

add_file_part_result(form, fs, name, filename) ==
  IF HasPart(form, name) THEN FALSE
  ELSE IF ~exists(fs, filename) THEN FALSE
  ELSE TRUE

add_file_part_form(form, fs, name, filename) ==
  IF add_file_part_result(form, fs, name, filename)
  THEN emplace(form, multipart_t(name, filename, <<>>, fs[filename]))
  ELSE form

add_str_part(name, content) ==
  /\ co.pc = "idle"
  /\ form_data_' = emplace(form_data_,
                           multipart_t(name, <<>>, content, Len(content)))
  /\ ret' = NoRet
  /\ last_add' = [called |-> FALSE, part |-> name, before |-> form_data_,
                  result |-> add_str_part_result(form_data_, name)]
  /\ UNCHANGED <<conn_vars, cfg_vars, timer_vars, env_vars, req_headers_,
                 resp_chunk_str_, redirect_uri_, co, ws, ops>>

add_file_part(name, filename) ==
  /\ co.pc = "idle"
  /\ form_data_' = add_file_part_form(form_data_, files, name, filename)
  /\ ret' = NoRet
  /\ last_add' = [called |-> FALSE, part |-> name, before |-> form_data_,
                  result |-> add_file_part_result(form_data_, files, name,
                                                  filename)]
  /\ UNCHANGED <<conn_vars, cfg_vars, timer_vars, env_vars, req_headers_,
                 resp_chunk_str_, redirect_uri_, co, ws, ops>>

set_max_single_part_size(size) ==
  /\ co.pc = "idle"
  /\ max_single_part_size_ # size
  /\ max_single_part_size_' = size
  /\ ret' = NoRet
  /\ last_add' = NoAdd
  /\ UNCHANGED <<conn_vars, timer_vars, env_vars, req_headers_, form_data_,
                 resp_chunk_str_, redirect_uri_, enable_follow_redirect_,
                 enable_timeout_, enable_ssl, use_ssl_, co, ws, ops>>

\* the file system outside the client: a file is removed
remove_file(path) ==
  /\ co.pc = "idle"
  /\ exists(files, path)
  /\ files' = [p \in DOMAIN files \ {path} |-> files[p]]
  /\ ret' = NoRet
  /\ last_add' = NoAdd
  /\ UNCHANGED <<conn_vars, cfg_vars, timer_vars, catalogue, life,
                 req_headers_,
                 form_data_, resp_chunk_str_, redirect_uri_, co, ws, ops>>

\* the file system outside the client: a file loses its last byte
shrink_file(path) ==
  /\ co.pc = "idle"
  /\ exists(files, path)
  /\ files[path] > 0
  /\ files' = [files EXCEPT ![path] = @ - 1]
  /\ ret' = NoRet
  /\ last_add' = NoAdd
  /\ UNCHANGED <<conn_vars, cfg_vars, timer_vars, catalogue, life,
                 req_headers_, form_data_, resp_chunk_str_, redirect_uri_,
                 co, ws, ops>>

\* resp_data{ec, 404}
ErrorData(ec) == [EmptyData EXCEPT !.net_err = ec, !.status = 404]

\* async_upload's loop reaches part i: send_single_part up to its first
\* write (a file part whose file is gone returns before it), or the closing
\* boundary after the last part
enter_part(f, i) ==
  IF i > Len(form_data_) THEN [f EXCEPT !.pc = "write_last", !.part = i]
  ELSE IF form_data_[i].filename # <<>>
          /\ ~exists(files, form_data_[i].filename)
  THEN [f EXCEPT !.pc = "exit", !.part = i, !.data = ErrorData(NoSuchFile)]
  ELSE [f EXCEPT !.pc = "part_head", !.part = i]

\* a loop that sends what is left of the file in one write
next_slice_whole(f) ==
  IF f.left_size > 0
  THEN [f EXCEPT !.left_size = 0, !.file_pos = @ + f.left_size,
                 !.gcount = f.left_size,
                 !.size = f.left_size, !.pc = "part_slice"]
  ELSE [f EXCEPT !.pc = "part_crlf"]

\* the while loop of send_single_part: the next slice of the file, or the
\* CRLF that ends the part
next_slice(f) ==
  IF f.left_size > 0
  THEN LET size_to_read == Min(f.left_size, max_single_part_size_)
           path == form_data_[f.part].filename
           on_disk == IF exists(files, path) THEN files[path] ELSE 0
           avail == IF on_disk > f.file_pos THEN on_disk - f.file_pos ELSE 0
           gcount == Min(size_to_read, avail)
       IN [f EXCEPT !.left_size = @ - gcount, !.file_pos = @ + gcount,
                    !.gcount = gcount,
                    !.size = size_to_read, !.pc = "part_slice"]
  ELSE [f EXCEPT !.pc = "part_crlf"]

\* send_single_part after its head was written
after_head(f) ==
  IF form_data_[f.part].filename # <<>>
  THEN next_slice([f EXCEPT !.left_size = form_data_[f.part].size,
                            !.file_pos = 0])
  ELSE [f EXCEPT !.pc = "part_content"]

\* the write send_single_part waits for at f.pc: its kind and length
pending_write(f) ==
  CASE f.pc = "part_head" ->
         [kind |-> "part_head", part |-> f.part,
          len |-> Len(part_content_head(form_data_[f.part]))]
    [] f.pc = "part_slice" ->
         [kind |-> "slice", part |-> f.part, len |-> f.size]
    [] f.pc = "part_content" ->
         [kind |-> "content", part |-> f.part,
          len |-> Len(form_data_[f.part].content)]
    [] f.pc = "part_crlf" ->
         [kind |-> "crlf", part |-> f.part, len |-> Len(CRCF)]

\* send_single_part after the write it waited for at f.pc
after_write(f) ==
  CASE f.pc = "part_head" -> after_head(f)
    [] f.pc = "part_slice" -> next_slice(f)
    [] f.pc = "part_content" -> [f EXCEPT !.pc = "part_crlf"]
    [] f.pc = "part_crlf" -> enter_part(f, f.part + 1)

\* a co_return of async_upload before handle_read: its guard clears the
\* pending headers and the registry; nothing closes the socket or waits for
\* the timer
UploadExit(f, data) ==
  /\ req_headers_' = <<>>
  /\ form_data_' = <<>>
  /\ timeouts' = Orphaned(timeouts)
  /\ promise' = "none"
  /\ co' = IdleCo
  /\ ret' = Returned(f, data, has_closed_, <<>>, <<>>)

\* async_upload goes on with frame f, or returns f.data
UploadStep(f) ==
  IF f.pc = "exit" THEN UploadExit(f, f.data)
  ELSE /\ co' = f
       /\ UNCHANGED <<req_headers_, form_data_, timeouts, promise, ret>>

\* async_upload(uri) with the registry form, up to its first suspension point
upload(uri, form) ==
  LET h == handle_uri(EmptyData, uri)
      content_len == multipart_content_len(form)
      f == [IdleCo EXCEPT !.op = "upload", !.method = "POST", !.uri = uri,
                          !.round = 1]
  IN IF form = <<>> \/ ~h.ok
     THEN /\ req_headers_' = <<>>
          /\ form_data_' = <<>>
          /\ ret' = Returned(f, [EmptyData EXCEPT !.status = 404],
                             has_closed_, <<>>, <<>>)
          /\ UNCHANGED <<timeouts, promise, co>>
     ELSE /\ CanArm
          /\ req_headers_' =
               content_type_headers(
                 add_header_list(req_headers_, "Content-Length", content_len),
                 "upload")
          /\ form_data_' = form
          /\ timeouts' = start_timer_timeouts(timeouts)
          /\ promise' = start_timer_promise
          /\ co' = [f EXCEPT !.announced = content_len,
                             !.pc = IF has_closed_ THEN "upload_connect"
                                    ELSE "write_header"]
          /\ ret' = NoRet

async_upload(uri) ==
  /\ co.pc = "idle"
  /\ ops < MaxOps
  /\ ops' = ops + 1
  /\ upload(uri, form_data_)
  /\ last_add' = NoAdd
  /\ UNCHANGED <<conn_vars, cfg_vars, env_vars, resp_chunk_str_,
                 redirect_uri_, is_timeout_, ws>>

\* async_upload(uri, name, filename): add_file_part, then async_upload(uri);
\* a refused part returns {{}, 404} at once
async_upload_file(uri, name, filename) ==
  /\ co.pc = "idle"
  /\ ops < MaxOps
  /\ ops' = ops + 1
  /\ IF ~add_file_part_result(form_data_, files, name, filename)
     THEN /\ ret' = Returned([IdleCo EXCEPT !.op = "upload",
                                            !.method = "POST"],
                             [EmptyData EXCEPT !.status = 404],
                             has_closed_, req_headers_, form_data_)
          /\ UNCHANGED <<req_headers_, form_data_, timeouts, promise, co>>
     ELSE upload(uri, add_file_part_form(form_data_, files, name, filename))
  /\ last_add' = NoAdd
  /\ UNCHANGED <<conn_vars, cfg_vars, env_vars, resp_chunk_str_,
                 redirect_uri_, is_timeout_, ws>>

\* connect(u) in async_upload completes (the uploads of these specifications
\* go to http URIs, for which connect(u) makes no handshake)
UploadConnect ==
  /\ co.pc = "upload_connect"
  /\ \/ /\ socket_' = connected(co)
        /\ has_closed_' = FALSE
        /\ UploadStep([co EXCEPT !.pc = "write_header", !.new_conn = TRUE,
                                 !.io = @ \cup {"connect"}])
     \/ /\ UNCHANGED <<has_closed_, socket_>>
        /\ UploadExit([co EXCEPT !.io = @ \cup {"connect"}],
                      ErrorData(ConnRefused))
  /\ UNCHANGED <<cfg_vars, env_vars, read_buf_, resp_chunk_str_,
                 redirect_uri_, is_timeout_, ws, last_add, ops>>

\* the write of the request header completes
UploadWriteHeader ==
  /\ co.pc = "write_header"
  /\ \/ /\ socket_.open
        /\ UploadStep(enter_part(
             [co EXCEPT !.writes = Append(@, [kind |-> "header", part |-> 0,
                                                len |-> 0]),
                        !.io = @ \cup {"write"}],
             1))
     \/ UploadExit([co EXCEPT !.io = @ \cup {"write"}],
                   ErrorData(BrokenPipe))
  /\ UNCHANGED <<conn_vars, cfg_vars, env_vars, resp_chunk_str_,
                 redirect_uri_, is_timeout_, ws, last_add, ops>>

\* a write of send_single_part completes
SendSinglePart ==
  /\ co.pc \in {"part_head", "part_slice", "part_content", "part_crlf"}
  /\ Len(co.writes) < MaxWrites
  /\ \/ /\ socket_.open
        /\ UploadStep(after_write(
             [co EXCEPT !.writes = Append(@, pending_write(co)),
                        !.io = @ \cup {"write"}]))
     \/ UploadExit([co EXCEPT !.io = @ \cup {"write"}],
                   ErrorData(BrokenPipe))
  /\ UNCHANGED <<conn_vars, cfg_vars, env_vars, resp_chunk_str_,
                 redirect_uri_, is_timeout_, ws, last_add, ops>>

\* the write of the closing boundary completes; the server answers the
\* upload and handle_read starts with is_keep_alive = true
UploadWriteLast ==
  /\ co.pc = "write_last"
  /\ \/ /\ socket_.open
        /\ \E r \in catalogue :
             /\ socket_' = [socket_ EXCEPT !.wire = @ \o Encode(r, "POST")]
             /\ UploadStep(
                  [co EXCEPT
                     !.writes = Append(@, [kind |-> "last", part |-> 0,
                                           len |-> Len(last_part)]),
                     !.is_keep_alive = TRUE,
                     !.io = @ \cup {"write"},
                     !.pc = "read_header",
                     !.resps = Append(@, r),
                     !.sent = Append(@, [peer |-> socket_.peer,
                                         uri |-> co.uri,
                                         method |-> co.method,
                                         headers |-> req_headers_])])
     \/ /\ UNCHANGED socket_
        /\ UploadExit([co EXCEPT !.io = @ \cup {"write"}],
                      ErrorData(BrokenPipe))
  /\ UNCHANGED <<cfg_vars, env_vars, has_closed_, read_buf_, resp_chunk_str_,
                 redirect_uri_, is_timeout_, ws, last_add, ops>>

----------------------------------------------------------------------------
(* WebSocket: async_ws_connect and the reader loop async_read_ws *)

\* the payload lengths of the frames the server sends: close frames without
\* a status code, with one, with a reason; 126 takes the extended header
TextLens == {1, 126}
CloseLens == {0, 2, 5}

WsFrames ==
  { [op |-> "text", len |-> n] : n \in TextLens }
    \cup { [op |-> "close", len |-> n] : n \in CloseLens }

FrameStreams == UNION { [1..n -> WsFrames] : n \in 1..MaxFrames }

\* a frame on the wire: opcode byte, length byte, for the length code 126
\* two bytes of extended length, then the unmasked payload
FrameBytes(fr) ==
  (IF fr.len < 126 THEN <<fr.op, ToString(fr.len)>>
   ELSE <<fr.op, ToString(126), ToString(fr.len \div 256),
          ToString(fr.len % 256)>>)
    \o Payload(1, fr.len)

RECURSIVE StreamBytes(_)
StreamBytes(fs) ==
  IF fs = <<>> THEN <<>> ELSE FrameBytes(Head(fs)) \o StreamBytes(Tail(fs))

ByteVal(tok) == CHOOSE n \in 0..255 : ToString(n) = tok

\* websocket::parse_header over the first header_size bytes: -2 and
\* left_header_len = 2 when the length code asks for the extended length,
\* else 0 with the payload length
parse_header(buf, header_size) ==
  LET code == ByteVal(buf[2])
  IN IF code = 126 /\ header_size = 2
     THEN [ret |-> -2, left_header_len |-> 2, payload_length |-> 0]
     ELSE [ret |-> 0, left_header_len |-> 0,
           payload_length |-> IF code = 126
                              THEN ByteVal(buf[3]) * 256 + ByteVal(buf[4])
                              ELSE code]

\* a reader that hands every frame, the close frame too, to on_message
frame_callbacks_all(w, is_close_frame, payload_len) ==
  (IF is_close_frame /\ w.on_ws_close_
   THEN <<[cb |-> "on_close", status |-> 200, net_err |-> NoErr,
           body_len |-> payload_len - 4]>>
   ELSE <<>>)
    \o <<[cb |-> "on_message", status |-> 200, net_err |-> NoErr,
          body_len |-> payload_len]>>

\* the callbacks a frame leads to: resp_body is {data_ptr, payload_len}
\* with, for a close frame, payload_len -= 4 and data_ptr += 2 (a negative
\* body_len stands for the size_t it wraps to, 2^64 + body_len)
frame_callbacks(w, is_close_frame, payload_len) ==
  LET body_len == IF is_close_frame THEN payload_len - 4 ELSE payload_len
  IN IF is_close_frame
     THEN IF w.on_ws_close_
          THEN <<[cb |-> "on_close", status |-> 200, net_err |-> NoErr,
                  body_len |-> body_len]>>
          ELSE <<>>
     ELSE IF w.on_ws_msg_
          THEN <<[cb |-> "on_message", status |-> 200, net_err |-> NoErr,
                  body_len |-> body_len]>>
          ELSE <<>>

\* a loop that ends on a failed read without telling anyone
error_callbacks_silent(w, ec) == <<>>

\* the callback a failed read leads to
error_callbacks(w, ec) ==
  IF w.on_ws_msg_
  THEN <<[cb |-> "on_message", status |-> 404, net_err |-> ec,
          body_len |-> 0]>>
  ELSE <<>>

\* async_read_ws once the whole frame is in read_buf_: the callbacks, then
\* the close reply or the next header
ws_frame(w, is_close_frame, payload_len) ==
  [w EXCEPT !.events = @ \o frame_callbacks(w, is_close_frame, payload_len),
            !.closes = IF is_close_frame THEN @ + 1 ELSE @,
            !.texts = IF is_close_frame THEN @ ELSE @ + 1,
            !.close_cb = IF is_close_frame THEN w.on_ws_close_ ELSE @,
            !.close_len = IF is_close_frame THEN payload_len ELSE @,
            !.header_size = 2,
            !.pc = IF is_close_frame THEN "send_close" ELSE "read_header"]

\* async_read_ws after a failed read
ws_failed(w, ec) ==
  [w EXCEPT !.events = @ \o error_callbacks(w, ec),
            !.read_err = ec, !.msg_cb = w.on_ws_msg_,
            !.exit_closed = has_closed_, !.pc = "done"]

\* on_ws_msg / on_ws_close: a callback is registered
on_ws_msg ==
  /\ co.pc = "idle"
  /\ ws.pc \in {"off", "done"}
  /\ ~ws.on_ws_msg_
  /\ ws' = [ws EXCEPT !.on_ws_msg_ = TRUE]
  /\ ret' = NoRet
  /\ last_add' = NoAdd
  /\ UNCHANGED <<conn_vars, cfg_vars, timer_vars, env_vars, req_headers_,
                 form_data_, resp_chunk_str_, redirect_uri_, co, ops>>

on_ws_close ==
  /\ co.pc = "idle"
  /\ ws.pc \in {"off", "done"}
  /\ ~ws.on_ws_close_
  /\ ws' = [ws EXCEPT !.on_ws_close_ = TRUE]
  /\ ret' = NoRet
  /\ last_add' = NoAdd
  /\ UNCHANGED <<conn_vars, cfg_vars, timer_vars, env_vars, req_headers_,
                 form_data_, resp_chunk_str_, redirect_uri_, co, ops>>

\* the headers async_ws_connect adds for a ws:// or wss:// URI
upgrade_headers(headers) ==
  add_header_list(
    add_header_list(
      add_header_list(
        add_header_list(headers, "Upgrade", "websocket"),
        "Connection", "Upgrade"),
      "Sec-WebSocket-Key", "s//GYHa/XO7Hd2F2eOGfyA=="),
    "Sec-WebSocket-Version", "13")

\* async_ws_connect: a URI that does not parse returns false at once; else
\* the upgrade headers and one GET
async_ws_connect(uri) ==
  /\ co.pc = "idle"
  /\ ops < MaxOps
  /\ ops' = ops + 1
  /\ LET h == handle_uri(EmptyData, uri)
         f == [IdleCo EXCEPT !.op = "ws_connect", !.method = "GET",
                             !.uri = uri, !.round = 1]
     IN IF ~h.ok
        THEN /\ ret' = Returned(f, h.data, has_closed_, req_headers_,
                                form_data_)
             /\ UNCHANGED <<req_headers_, resp_chunk_str_, timeouts, promise,
                            co>>
        ELSE /\ req_headers_' = IF h.u.is_websocket
                                THEN upgrade_headers(req_headers_)
                                ELSE req_headers_
             /\ async_request(f)
             /\ ret' = NoRet
  /\ last_add' = NoAdd
  /\ UNCHANGED <<conn_vars, cfg_vars, env_vars, form_data_, redirect_uri_,
                 is_timeout_, ws>>

\* what async_ws_connect gives its caller for the datum of the upgrade
\* request: !data.net_err
ws_connect_result(data) == data.net_err = NoErr

\* the server sends the frames of the session
ServerFrames ==
  /\ ws.pc = "read_header"
  /\ ~ws.streamed
  /\ socket_.open
  /\ \E fs \in FrameStreams :
       socket_' = [socket_ EXCEPT !.wire = @ \o StreamBytes(fs)]
  /\ ws' = [ws EXCEPT !.streamed = TRUE]
  /\ UNCHANGED <<cfg_vars, timer_vars, env_vars, has_closed_, read_buf_,
                 req_headers_, form_data_, resp_chunk_str_, redirect_uri_,
                 co, ret, last_add, ops>>

\* async_read_ws: the read of header_size bytes completes
WsReadHeader ==
  /\ ws.pc = "read_header"
  /\ \E o \in async_read(read_buf_, socket_, ws.header_size) :
       LET p == parse_header(o.buf, ws.header_size)
           is_close_frame == o.buf[1] = "close"
           buf1 == consume(o.buf, ws.header_size)
       IN /\ socket_' = [socket_ EXCEPT !.wire = o.wire]
          /\ IF o.ec # NoErr
             THEN /\ ws' = ws_failed(ws, o.ec)
                  /\ read_buf_' = o.buf
             ELSE IF p.ret = -2
             THEN /\ ws' = [ws EXCEPT
                              !.header_size = @ + p.left_header_len]
                  /\ read_buf_' = o.buf
             ELSE IF p.payload_length > Len(buf1)
             THEN /\ ws' = [ws EXCEPT
                              !.pc = "read_payload",
                              !.is_close_frame = is_close_frame,
                              !.payload_len = p.payload_length,
                              !.size_to_read = p.payload_length - Len(buf1)]
                  /\ read_buf_' = buf1
             ELSE /\ ws' = ws_frame(ws, is_close_frame, p.payload_length)
                  /\ read_buf_' = <<>>
  /\ UNCHANGED <<cfg_vars, timer_vars, env_vars, has_closed_, req_headers_,
                 form_data_, resp_chunk_str_, redirect_uri_, co, ret,
                 last_add, ops>>

\* async_read_ws: the read of the rest of the payload completes
WsReadPayload ==
  /\ ws.pc = "read_payload"
  /\ \E o \in async_read(read_buf_, socket_, ws.size_to_read) :
       /\ socket_' = [socket_ EXCEPT !.wire = o.wire]
       /\ IF o.ec # NoErr
          THEN /\ ws' = ws_failed(ws, o.ec)
               /\ read_buf_' = o.buf
          ELSE /\ ws' = ws_frame(ws, ws.is_close_frame, ws.payload_len)
               /\ read_buf_' = <<>>
  /\ UNCHANGED <<cfg_vars, timer_vars, env_vars, has_closed_, req_headers_,
                 form_data_, resp_chunk_str_, redirect_uri_, co, ret,
                 last_add, ops>>

\* async_read_ws: the write of the close reply completes, with or without
\* an error; then async_close() and the loop returns
WsSendClose ==
  /\ ws.pc = "send_close"
  /\ \E sent_ok \in {b \in BOOLEAN : b => socket_.open} :
       ws' = [ws EXCEPT
                !.events = @ \o <<[cb |-> "send_close", status |-> 0,
                                   net_err |-> IF sent_ok THEN NoErr
                                               ELSE BrokenPipe,
                                   body_len |-> 0]>>,
                !.exit_closed = TRUE,
                !.pc = "done"]
  /\ has_closed_' = TRUE
  /\ socket_' = IF has_closed_ THEN socket_ ELSE ClosedSocket
  /\ UNCHANGED <<cfg_vars, timer_vars, env_vars, read_buf_, req_headers_,
                 form_data_, resp_chunk_str_, redirect_uri_, co, ret,
                 last_add, ops>>

----------------------------------------------------------------------------
(* The client between operations *)

\* reset(): close, then a fresh open socket
reset ==
  /\ co.pc = "idle"
  /\ has_closed_' = TRUE
  /\ socket_' = [open |-> TRUE, peer |-> "", wire |-> <<>>]
  /\ ret' = NoRet
  /\ last_add' = NoAdd
  /\ UNCHANGED <<cfg_vars, timer_vars, env_vars, read_buf_, req_headers_,
                 form_data_, resp_chunk_str_, redirect_uri_, co, ws, ops>>

----------------------------------------------------------------------------
(* The destructor of a client that owns its executor *)

\* a destructor that always joins the worker on its own thread
joiner_self(on_worker) == "destructor"

\* the thread that joins the worker: a detached helper when the destructor
\* runs on the worker thread itself, else the destructor's thread
joiner(on_worker) == IF on_worker THEN "helper" ELSE "destructor"

\* the worker is inside the destructor and runs no handler meanwhile
InDestructor == life.on_worker /\ life.dtor \in {"drop", "join"}

\* ~coro_http_client up to work_ = nullptr: async_close(), which
\* returns at once on a closed client and else dispatches close_socket();
\* dispatch runs the handler on the spot on the worker thread and queues it
\* from any other thread
Destroy(on_worker) ==
  /\ co.pc = "idle"
  /\ life.dtor = "none"
  /\ IF has_closed_
     THEN /\ life' = [life EXCEPT !.dtor = "drop", !.on_worker = on_worker]
          /\ UNCHANGED <<has_closed_, socket_>>
     ELSE IF on_worker
     THEN /\ life' = [life EXCEPT !.dtor = "drop", !.on_worker = on_worker,
                                  !.was_open = TRUE,
                                  !.events = Append(@, "close")]
          /\ has_closed_' = TRUE
          /\ socket_' = ClosedSocket
     ELSE /\ life' = [life EXCEPT !.dtor = "drop", !.on_worker = on_worker,
                                  !.was_open = TRUE, !.posted = @ + 1,
                                  !.events = Append(@, "close")]
          /\ UNCHANGED <<has_closed_, socket_>>
  /\ ret' = NoRet
  /\ last_add' = NoAdd
  /\ UNCHANGED <<cfg_vars, timer_vars, files, catalogue, read_buf_,
                 req_headers_, form_data_, resp_chunk_str_, redirect_uri_,
                 co, ws, ops>>

\* the destructor goes on: work_ = nullptr, then io_thd_.join() on its own
\* thread, or io_ctx_ and io_thd_ moved to a detached thread that joins
DtorDrop ==
  /\ life.dtor = "drop"
  /\ life' = IF joiner(life.on_worker) = "helper"
             THEN [life EXCEPT !.work_ = FALSE, !.io_ctx = "helper",
                               !.joiner = "helper", !.helper = "join",
                               !.dtor = "done",
                               !.events = Append(@, "drop")]
             ELSE [life EXCEPT !.work_ = FALSE, !.joiner = "destructor",
                               !.dtor = "join",
                               !.events = Append(@, "drop")]
  /\ UNCHANGED <<conn_vars, cfg_vars, timer_vars, files, catalogue,
                 req_headers_, form_data_, resp_chunk_str_, redirect_uri_,
                 co, ret, ws, last_add, ops>>

\* the worker runs a queued close_socket()
RunPosted ==
  /\ life.io_thd = "running"
  /\ ~InDestructor
  /\ life.posted > 0
  /\ life' = [life EXCEPT !.posted = @ - 1]
  /\ has_closed_' = TRUE
  /\ socket_' = ClosedSocket
  /\ UNCHANGED <<cfg_vars, timer_vars, files, catalogue, read_buf_,
                 req_headers_, form_data_, resp_chunk_str_, redirect_uri_,
                 co, ret, ws, last_add, ops>>

\* io_ctx_->run() returns: the sentinel is gone and no handler or timeout
\* coroutine is outstanding
WorkerExit ==
  /\ life.io_thd = "running"
  /\ ~InDestructor
  /\ ~life.work_
  /\ life.posted = 0
  /\ timeouts = <<>>
  /\ life' = [life EXCEPT !.io_thd = "exited"]
  /\ UNCHANGED <<conn_vars, cfg_vars, timer_vars, files, catalogue,
                 req_headers_, form_data_, resp_chunk_str_, redirect_uri_,
                 co, ret, ws, last_add, ops>>

\* io_thd_.join() returns in the destructor, which returns
DtorJoin ==
  /\ life.dtor = "join"
  /\ life.io_thd = "exited"
  /\ life' = [life EXCEPT !.dtor = "done", !.io_ctx = "gone",
                          !.events = Append(@, "join")]
  /\ UNCHANGED <<conn_vars, cfg_vars, timer_vars, files, catalogue,
                 req_headers_, form_data_, resp_chunk_str_, redirect_uri_,
                 co, ret, ws, last_add, ops>>

\* io_thd.join() returns in the detached thread, which ends and takes
\* io_ctx with it
HelperJoin ==
  /\ life.helper = "join"
  /\ life.io_thd = "exited"
  /\ life' = [life EXCEPT !.helper = "done", !.io_ctx = "gone",
                          !.events = Append(@, "join")]
  /\ UNCHANGED <<conn_vars, cfg_vars, timer_vars, files, catalogue,
                 req_headers_, form_data_, resp_chunk_str_, redirect_uri_,
                 co, ret, ws, last_add, ops>>

----------------------------------------------------------------------------
(* The specification of the request engine *)

\* the URIs the callers pass: with and without a scheme, two hosts, and one
\* that does not parse
Uris == {Http \o <<"a">>, <<"a">>, Http \o <<"b">>, Http \o <<"^">>}

HeaderKeys == {"", "Host", "X"}
HeaderVals == {"1"}

\* the responses the server of the engine specification may send
EngineResponses ==
  { Response(200, FALSE, FALSE, FALSE, FALSE, <<2>>),
    Response(200, TRUE, FALSE, FALSE, FALSE, <<1>>),
    Response(200, FALSE, FALSE, FALSE, FALSE, <<0>>),
    Response(206, FALSE, FALSE, TRUE, FALSE, <<2>>),
    Response(200, FALSE, TRUE, FALSE, FALSE, <<2, 1>>),
    Response(200, TRUE, TRUE, FALSE, FALSE, <<1>>),
    Response(301, FALSE, FALSE, FALSE, TRUE, <<0>>),
    Response(301, FALSE, FALSE, FALSE, FALSE, <<0>>),
    Response(301, FALSE, TRUE, FALSE, TRUE, <<1>>) }

InitClient ==
  /\ has_closed_ = TRUE
  /\ socket_ = ClosedSocket
  /\ read_buf_ = <<>>
  /\ req_headers_ = <<>>
  /\ form_data_ = <<>>
  /\ resp_chunk_str_ = <<>>
  /\ redirect_uri_ = <<>>
  /\ enable_follow_redirect_ = FALSE
  /\ enable_timeout_ = FALSE
  /\ max_single_part_size_ = 1024 * 1024
  /\ enable_ssl = FALSE
  /\ use_ssl_ = FALSE
  /\ is_timeout_ = FALSE
  /\ timeouts = <<>>
  /\ promise = "none"
  /\ co = IdleCo
  /\ ret = NoRet
  /\ ws = WsOff
  /\ files = <<>>
  /\ last_add = NoAdd
  /\ life = Running
  /\ ops = 0

Init ==
  /\ InitClient
  /\ catalogue = EngineResponses

Next ==
  \/ \E k \in HeaderKeys, v \in HeaderVals : add_header(k, v)
  \/ \E b \in BOOLEAN : enable_auto_redirect(b)
  \/ reset
  \/ \E op \in {"get", "head", "post"}, u \in Uris : request(op, u)
  \/ \E u \in Uris, ok \in BOOLEAN : async_download(u, ok)
  \/ Connect
  \/ Write
  \/ ReadHeader
  \/ ReadBody
  \/ ChunkLine
  \/ ChunkData
  \/ WaitTimer
  \/ Redirect

Spec == Init /\ [][Next]_vars

----------------------------------------------------------------------------
(* The specification of the response reader: every response within the   *)
(* bounds, read in pieces of every size                                   *)

InitRead ==
  /\ InitClient
  /\ catalogue = AllResponses

NextRead ==
  \/ request("get", Http \o <<"a">>)
  \/ async_download(Http \o <<"a">>, TRUE)
  \/ Connect
  \/ Write
  \/ ReadHeader
  \/ ReadBody
  \/ ChunkLine
  \/ ChunkData
  \/ WaitTimer

SpecRead == InitRead /\ [][NextRead]_vars

----------------------------------------------------------------------------
(* The specification of the upload pipeline *)

PartNames == {<<"a">>, <<"b">>}
PartContents == {<<"x">>}

\* the files on disk and their sizes: one in the working directory, one
\* under a directory and with an extension the MIME table knows
UploadFiles ==
  (<<"a">> :> 3) @@ (<<"b", "/", "a", ".", "t">> :> 1)

\* the paths callers name: the files on disk and one that is not there
Paths == DOMAIN UploadFiles \cup {<<"t">>}

\* the slice sizes callers set: below, dividing and not dividing the files
PartSizes == {1, 2}

UploadUris == {Http \o <<"a">>, <<"a">>}

UploadResponses ==
  { Response(200, FALSE, FALSE, FALSE, FALSE, <<1>>),
    Response(200, TRUE, FALSE, FALSE, FALSE, <<0>>) }

InitUpload ==
  /\ has_closed_ = TRUE
  /\ socket_ = ClosedSocket
  /\ read_buf_ = <<>>
  /\ req_headers_ = <<>>
  /\ form_data_ = <<>>
  /\ resp_chunk_str_ = <<>>
  /\ redirect_uri_ = <<>>
  /\ enable_follow_redirect_ = FALSE
  /\ enable_timeout_ = FALSE
  /\ max_single_part_size_ = 1024 * 1024
  /\ enable_ssl = FALSE
  /\ use_ssl_ = FALSE
  /\ is_timeout_ = FALSE
  /\ timeouts = <<>>
  /\ promise = "none"
  /\ co = IdleCo
  /\ ret = NoRet
  /\ ws = WsOff
  /\ files = UploadFiles
  /\ last_add = NoAdd
  /\ life = Running
  /\ ops = 0
  /\ catalogue = UploadResponses

NextUpload ==
  \/ \E n \in PartNames, c \in PartContents : add_str_part(n, c)
  \/ \E n \in PartNames, f \in Paths : add_file_part(n, f)
  \/ \E m \in PartSizes : set_max_single_part_size(m)
  \/ \E f \in Paths : remove_file(f)
  \/ \E u \in UploadUris : async_upload(u)
  \/ \E u \in UploadUris, n \in PartNames, f \in Paths :
       async_upload_file(u, n, f)
  \/ UploadConnect
  \/ UploadWriteHeader
  \/ SendSinglePart
  \/ UploadWriteLast
  \/ ReadHeader
  \/ ReadBody
  \/ WaitTimer

SpecUpload == InitUpload /\ [][NextUpload]_vars

----------------------------------------------------------------------------
(* The specification of the slice loop: a file part sent with every slice  *)
(* size, from a file that may have become shorter since it was registered  *)

SliceSizes == {0, 1, 2}

NextSlices ==
  \/ \E m \in SliceSizes : set_max_single_part_size(m)
  \/ add_file_part(<<"a">>, <<"a">>)
  \/ shrink_file(<<"a">>)
  \/ async_upload(Http \o <<"a">>)
  \/ UploadConnect
  \/ UploadWriteHeader
  \/ SendSinglePart
  \/ UploadWriteLast
  \/ ReadHeader
  \/ ReadBody
  \/ WaitTimer

SpecSlices == InitUpload /\ [][NextSlices]_vars

----------------------------------------------------------------------------
(* The specification of redirects: GET requests answered with redirects    *)
(* of fixed length and chunked, with and without a Location header         *)

RedirectResponses ==
  { Response(301, FALSE, FALSE, FALSE, TRUE, <<0>>),
    Response(301, FALSE, FALSE, FALSE, TRUE, <<1>>),
    Response(301, FALSE, TRUE, FALSE, TRUE, <<1>>),
    Response(301, FALSE, TRUE, FALSE, FALSE, <<1>>),
    Response(301, FALSE, FALSE, FALSE, FALSE, <<0>>),
    Response(200, FALSE, FALSE, FALSE, FALSE, <<1>>) }

InitRedirect ==
  /\ InitClient
  /\ catalogue = RedirectResponses

NextRedirect ==
  \/ \E b \in BOOLEAN : enable_auto_redirect(b)
  \/ request("get", Http \o <<"a">>)
  \/ Connect
  \/ Write
  \/ ReadHeader
  \/ ReadBody
  \/ ChunkLine
  \/ ChunkData
  \/ WaitTimer
  \/ Redirect

SpecRedirect == InitRedirect /\ [][NextRedirect]_vars

----------------------------------------------------------------------------
(* The specification of the pending header list *)

ListKeys == {"", "Host", "X", "Y"}
ListVals == {"1", "2"}

InitHeaders ==
  /\ InitClient
  /\ catalogue = { Response(200, FALSE, FALSE, FALSE, FALSE, <<1>>) }

NextHeaders ==
  \/ \E k \in ListKeys, v \in ListVals : add_header(k, v)
  \/ request("get", Http \o <<"a">>)
  \/ Connect
  \/ Write
  \/ ReadHeader
  \/ ReadBody
  \/ WaitTimer

SpecHeaders == InitHeaders /\ [][NextHeaders]_vars

----------------------------------------------------------------------------
(* The specification of a request under a deadline *)

InitTimer ==
  /\ InitClient
  /\ catalogue = { Response(200, FALSE, FALSE, FALSE, FALSE, <<1>>),
                   Response(200, FALSE, TRUE, FALSE, FALSE, <<1>>) }

NextTimer ==
  \/ set_timeout
  \/ \E op \in {"get", "head"} : request(op, Http \o <<"a">>)
  \/ Connect
  \/ Write
  \/ ReadHeader
  \/ ReadBody
  \/ ChunkLine
  \/ ChunkData
  \/ WaitTimer
  \/ AwaitPromise
  \/ \E i \in DOMAIN timeouts : TimeoutStart(i)
  \/ \E i \in DOMAIN timeouts : TimeoutExpire(i)
  \/ \E i \in DOMAIN timeouts : TimeoutCancelled(i)

SpecTimer == InitTimer /\ [][NextTimer]_vars

----------------------------------------------------------------------------
(* The specification of an upload under a deadline *)

InitUploadTimer ==
  /\ InitClient
  /\ catalogue = { Response(200, FALSE, FALSE, FALSE, FALSE, <<1>>) }

NextUploadTimer ==
  \/ set_timeout
  \/ add_str_part(<<"a">>, <<"x">>)
  \/ async_upload(Http \o <<"a">>)
  \/ request("get", Http \o <<"a">>)
  \/ UploadConnect
  \/ UploadWriteHeader
  \/ SendSinglePart
  \/ UploadWriteLast
  \/ Connect
  \/ Write
  \/ ReadHeader
  \/ ReadBody
  \/ WaitTimer
  \/ AwaitPromise
  \/ \E i \in DOMAIN timeouts : TimeoutStart(i)
  \/ \E i \in DOMAIN timeouts : TimeoutExpire(i)
  \/ \E i \in DOMAIN timeouts : TimeoutCancelled(i)

SpecUploadTimer == InitUploadTimer /\ [][NextUploadTimer]_vars

----------------------------------------------------------------------------
(* The specification of requests and uploads on one client *)

MixedResponses ==
  { Response(200, FALSE, FALSE, FALSE, FALSE, <<1>>),
    Response(200, FALSE, FALSE, FALSE, FALSE, <<0>>),
    Response(200, FALSE, TRUE, FALSE, FALSE, <<2>>),
    Response(200, FALSE, TRUE, FALSE, FALSE, <<1, -1, 1>>) }

InitMixed ==
  /\ InitClient
  /\ catalogue = MixedResponses

NextMixed ==
  \/ add_str_part(<<"a">>, <<"x">>)
  \/ async_upload(Http \o <<"a">>)
  \/ request("get", Http \o <<"a">>)
  \/ UploadConnect
  \/ UploadWriteHeader
  \/ SendSinglePart
  \/ UploadWriteLast
  \/ Connect
  \/ Write
  \/ ReadHeader
  \/ ReadBody
  \/ ChunkLine
  \/ ChunkData
  \/ WaitTimer

SpecMixed == InitMixed /\ [][NextMixed]_vars

----------------------------------------------------------------------------
(* The specification of requests to URIs that may not parse, with and      *)
(* without a deadline                                                      *)

InitUri ==
  /\ InitClient
  /\ catalogue = { Response(200, FALSE, FALSE, FALSE, FALSE, <<1>>) }

NextUri ==
  \/ set_timeout
  \/ \E op \in {"get", "head", "post"}, u \in Uris : request(op, u)
  \/ \E u \in Uris, ok \in BOOLEAN : async_download(u, ok)
  \/ Connect
  \/ Write
  \/ ReadHeader
  \/ ReadBody
  \/ WaitTimer
  \/ AwaitPromise
  \/ \E i \in DOMAIN timeouts : TimeoutStart(i)
  \/ \E i \in DOMAIN timeouts : TimeoutExpire(i)
  \/ \E i \in DOMAIN timeouts : TimeoutCancelled(i)

SpecUri == InitUri /\ [][NextUri]_vars

----------------------------------------------------------------------------
(* The specification of check_scheme: requests to every short string over  *)
(* the characters of the scheme prefixes and of the host names             *)

SchemeChars == {"h", "t", "p", "s", "w", ":", "/", "a"}

MaxUriLen == 2

SchemeUris ==
  UNION { [1..n -> SchemeChars] : n \in 0..MaxUriLen }
    \cup { s \o <<"a">> : s \in {Http, Https, Ws, Wss} }
    \cup { Http, <<"h", "t", "t", "p", ":", "a">>, <<"b">> }

InitScheme ==
  /\ InitClient
  /\ catalogue = { Response(200, FALSE, FALSE, FALSE, FALSE, <<0>>) }

NextScheme ==
  \/ \E u \in SchemeUris : request("get", u)
  \/ Connect
  \/ Write
  \/ ReadHeader
  \/ WaitTimer

SpecScheme == InitScheme /\ [][NextScheme]_vars

----------------------------------------------------------------------------
(* The specification of the destruction of a client between requests: the  *)
(* threads run and get their turn                                          *)

DestroyResponses ==
  { Response(200, FALSE, FALSE, FALSE, FALSE, <<1>>),
    Response(200, TRUE, FALSE, FALSE, FALSE, <<1>>) }

InitDestroy ==
  /\ InitClient
  /\ catalogue = DestroyResponses

\* the client is there to be used
Alive == life.dtor = "none"

NextDestroy ==
  \/ \E op \in {"get", "head"} : Alive /\ request(op, Http \o <<"a">>)
  \/ Connect
  \/ Write
  \/ ReadHeader
  \/ ReadBody
  \/ WaitTimer
  \/ \E w \in BOOLEAN : Destroy(w)
  \/ DtorDrop
  \/ RunPosted
  \/ WorkerExit
  \/ DtorJoin
  \/ HelperJoin

SpecDestroy ==
  /\ InitDestroy
  /\ [][NextDestroy]_vars
  /\ WF_vars(DtorDrop)
  /\ WF_vars(RunPosted)
  /\ WF_vars(WorkerExit)
  /\ WF_vars(DtorJoin)
  /\ WF_vars(HelperJoin)

----------------------------------------------------------------------------
(* The specification of requests over TLS *)

TlsUris == {Https \o <<"a">>, Wss \o <<"a">>}

TlsResponses ==
  { Response(200, FALSE, FALSE, FALSE, FALSE, <<1>>),
    Response(200, TRUE, FALSE, FALSE, FALSE, <<0>>) }

\* a client of a build with or without CINATRA_ENABLE_SSL
InitTls ==
  /\ has_closed_ = TRUE
  /\ socket_ = ClosedSocket
  /\ read_buf_ = <<>>
  /\ req_headers_ = <<>>
  /\ form_data_ = <<>>
  /\ resp_chunk_str_ = <<>>
  /\ redirect_uri_ = <<>>
  /\ enable_follow_redirect_ = FALSE
  /\ enable_timeout_ = FALSE
  /\ max_single_part_size_ = 1024 * 1024
  /\ enable_ssl \in BOOLEAN
  /\ use_ssl_ = FALSE
  /\ is_timeout_ = FALSE
  /\ timeouts = <<>>
  /\ promise = "none"
  /\ co = IdleCo
  /\ ret = NoRet
  /\ ws = WsOff
  /\ files = <<>>
  /\ last_add = NoAdd
  /\ life = Running
  /\ ops = 0
  /\ catalogue = TlsResponses

NextTls ==
  \/ init_ssl
  \/ \E op \in {"get", "post"}, u \in TlsUris : request(op, u)
  \/ Connect
  \/ HandleShake
  \/ Write
  \/ ReadHeader
  \/ ReadBody
  \/ WaitTimer

SpecTls == InitTls /\ [][NextTls]_vars

----------------------------------------------------------------------------
(* The specification of the WebSocket channel *)

WsUris == {Ws \o <<"a">>, Ws \o <<"^">>}

WsResponses ==
  { Response(101, FALSE, FALSE, FALSE, FALSE, <<0>>),
    Response(404, TRUE, FALSE, FALSE, FALSE, <<0>>) }

InitWs ==
  /\ InitClient
  /\ catalogue = WsResponses

\* the caller connects when no reader loop is running
WsIdle == ws.pc \in {"off", "done"}

NextWs ==
  \/ on_ws_msg
  \/ on_ws_close
  \/ \E u \in WsUris : WsIdle /\ async_ws_connect(u)
  \/ Connect
  \/ Write
  \/ ReadHeader
  \/ WaitTimer
  \/ ServerFrames
  \/ WsReadHeader
  \/ WsReadPayload
  \/ WsSendClose

SpecWs == InitWs /\ [][NextWs]_vars

----------------------------------------------------------------------------
(* Properties *)

Returns == ret.op # "none"

\* the operations that issue a request
RequestOps == {"get", "head", "post", "upload", "download"}

\* the response the operation that has just returned read last
LastResponse == ret.resps[Len(ret.resps)]

Answered == Returns /\ ret.resps # <<>>

\* C1: whenever an operation that issues a request (request, upload,
\* download) returns a datum that carries a network error, the connection
\* is closed and the status is 404.
C1_ErrorReturnsClosed404 ==
  (Returns /\ ret.op \in RequestOps /\ ret.data.net_err # NoErr)
    => (ret.has_closed /\ ret.data.status = 404)

\* C2: after a request of any method (HEAD included) that completes without
\* a network error, the connection is closed if the response carried
\* Connection: close and open if the response was keep-alive.
C2_ConnectionFollowsResponse ==
  (Answered /\ ret.op \in {"get", "head", "post"} /\ ret.data.net_err = NoErr)
    => (ret.has_closed <=> LastResponse.close)

\* C3: in a reader loop with on_close registered, a close frame, whatever
\* its payload, leads to exactly one on_close call, then the close reply,
\* then the closed socket and the end of the loop; on_message is called
\* neither for the close frame nor afterwards.
C3_CloseFrame ==
  LET ev == ws.events
      closed_at == { i \in 1..Len(ev) : ev[i].cb = "on_close" }
      messages == { i \in 1..Len(ev) :
                      ev[i].cb = "on_message" /\ ev[i].net_err = NoErr }
  IN (ws.closes > 0 /\ ws.close_cb) =>
       /\ ws.closes = 1
       /\ Cardinality(closed_at) = 1
       /\ Cardinality(messages) <= ws.texts
       /\ \A i \in closed_at :
            /\ \A j \in (i + 1)..Len(ev) : ev[j].cb # "on_message"
            /\ IF ws.pc = "send_close" THEN i = Len(ev)
               ELSE /\ ws.pc = "done"
                    /\ i + 1 = Len(ev)
                    /\ ev[i + 1].cb = "send_close"
                    /\ ws.exit_closed

\* C3 witness: a close frame that carries only a status code came after a
\* message; on_close was called, the reply written and the loop has ended
C3_Witness ==
  /\ ws.pc = "done"
  /\ ws.close_cb
  /\ ws.texts = 1
  /\ Len(ws.events) >= 2
  /\ ws.events[Len(ws.events) - 1].cb = "on_close"
  /\ ws.events[Len(ws.events) - 1].body_len = -2
  /\ ws.events[Len(ws.events)].cb = "send_close"
  /\ has_closed_

\* C11: on_close gets exactly the reason bytes of the close frame, the
\* payload without its 2-byte status code (nothing for a payload shorter
\* than 2 bytes), and the length never underflows.
C11_CloseReason ==
  \A i \in 1..Len(ws.events) :
    ws.events[i].cb = "on_close"
      => ws.events[i].body_len =
           (IF ws.close_len >= 2 THEN ws.close_len - 2 ELSE 0)

\* C4: the Content-Length multipart_content_len announces for an upload
\* equals the number of bytes the upload wrote from the first part header
\* through the closing boundary.
C4_ContentLenIsBytesWritten ==
  (Returns /\ ret.op = "upload" /\ ret.writes # <<>>
     /\ ret.writes[Len(ret.writes)].kind = "last")
    => ret.announced = written_len(ret.writes)

\* C5: for every chunked response, however its bytes are split across
\* reads, the bytes delivered to the accumulator or the sink are the chunk
\* payloads in order, every size line and trailing CRLF is consumed (none of
\* the response is left unread) and none delivered, and the response
\* completes with eof = true.
C5_ChunkedDecoded ==
  (Answered /\ ret.data.net_err = NoErr /\ ret.method # "HEAD"
     /\ LastResponse.chunked)
    => /\ ret.delivered = BodyOf(LastResponse)
       /\ IF ret.is_file THEN ret.stream = BodyOf(LastResponse)
          ELSE ret.data.resp_body = BodyOf(LastResponse)
       /\ ret.data.eof
       /\ read_buf_ = <<>>
       /\ socket_.wire = <<>>

\* C6: add_header("Host", v) returns false, add_header(k, v) returns false
\* when a header named k is pending, and both leave the pending list as it
\* was; a non-empty new key returns true and (k, v) is appended at the end.
C6_AddHeader ==
  last_add.called =>
    /\ (last_add.key = "Host" \/ HasKey(last_add.before, last_add.key))
         => (~last_add.result /\ req_headers_ = last_add.before)
    /\ (last_add.key # "" /\ last_add.key # "Host"
          /\ ~HasKey(last_add.before, last_add.key))
         => /\ last_add.result
            /\ req_headers_ =
                 Append(last_add.before, <<last_add.key, last_add.val>>)

\* C6 witness: a header is pending, and add_header has just refused the
\* same key with another value
C6_Witness ==
  /\ last_add.called
  /\ ~last_add.result
  /\ last_add.before = <<<<"X", "1">>>>
  /\ last_add.key = "X"
  /\ last_add.val = "2"

C8_RedirectFollowedOnce ==
  (Answered /\ ret.op \in {"get", "head", "post"})
    => /\ Len(ret.sent) <= 2
       /\ ~ret.follow => Len(ret.sent) = 1
       /\ (ret.follow /\ Len(ret.resps) = 1 /\ ret.data.net_err = NoErr)
            => ~(ret.resps[1].status \in 300..399 /\ ret.resps[1].location)
       /\ Len(ret.sent) = 2
            => /\ ret.follow
               /\ ret.resps[1].status \in 300..399 /\ ret.resps[1].location
               /\ ret.sent[2].uri = LocationValue
               /\ ret.sent[2].method = ret.sent[1].method

\* C9: a successful download delivers every body byte to the sink, in
\* order, whatever the body strategy (fixed-length, chunked, range), and
\* the body_view it returns is empty.
C9_DownloadToSink ==
  (Answered /\ ret.op = "download" /\ ret.data.net_err = NoErr)
    => /\ ret.stream = BodyOf(LastResponse)
       /\ ret.data.resp_body = <<>>

\* C10: the pending header list is empty whenever a request operation
\* (request, upload, download) returns, on success and on every error path.
C10_HeadersClearedOnReturn ==
  (Returns /\ ret.op \in RequestOps) => ret.req_headers = <<>>

\* C12: the multipart registry is empty whenever an upload operation
\* returns: completed, failed at any step, or refused by the overload
\* async_upload(uri, name, filename) before anything was sent.
C12_RegistryClearedOnReturn ==
  (Returns /\ ret.op = "upload") => ret.form_data = <<>>

\* C13: the reader loop is started only after an upgrade request that
\* succeeded: after a failed ws_connect no loop runs, no read is issued and
\* on_message is never called.
C13_ReaderOnlyAfterUpgrade ==
  /\ ws.pc # "off" => ws.upgrade_err = NoErr
  /\ (Returns /\ ret.op = "ws_connect" /\ ret.data.net_err # NoErr)
       => /\ ws.pc \in {"off", "done"}
          /\ \A i \in 1..Len(ws.events) : ws.events[i].cb # "on_message"

\* the lengths of the body writes the running upload made for part p
SliceLens(p) ==
  LET slices == SelectSeq(co.writes,
                          LAMBDA w : w.kind = "slice" /\ w.part = p)
  IN [i \in 1..Len(slices) |-> slices[i].len]

\* the parts of the running upload that are file parts and were sent whole
SentFileParts ==
  { p \in 1..Len(form_data_) :
      /\ form_data_[p].filename # <<>>
      /\ \E i \in 1..Len(co.writes) :
           co.writes[i].kind = "crlf" /\ co.writes[i].part = p }

\* C14: for a file part of size S, unchanged since it was registered, and
\* max_single_part_size M > 0, the upload makes ceil(S/M) body writes, each
\* of at most M bytes, all but the last of exactly M bytes, S bytes in all.
C14_FileSlices ==
  co.op = "upload" =>
    \A p \in SentFileParts :
      LET S == form_data_[p].size
          M == max_single_part_size_
          lens == SliceLens(p)
          n == (S + M - 1) \div M
      IN (exists(files, form_data_[p].filename)
            /\ files[form_data_[p].filename] = S)
         => /\ Len(lens) = n
            /\ \A i \in 1..Len(lens) : lens[i] <= M
            /\ \A i \in 1..(n - 1) : lens[i] = M
            /\ Sum(lens) = S

\* C14 witness: a 3-byte file sent with M = 2 in writes of 2 and 1 bytes
C14_Witness ==
  /\ co.op = "upload"
  /\ max_single_part_size_ = 2
  /\ \E p \in SentFileParts :
       form_data_[p].size = 3 /\ SliceLens(p) = <<2, 1>>

\* C15: with a timeout configured every request operation (request and
\* upload, on every exit path) has its deadline notifier signaled once, by
\* the expiry or by the cancellation, while the operation that armed it is
\* still there to wait for it, and an operation that awaits the notifier has
\* a signal coming: it never stalls.
C15_NotifierSignaledOnce ==
  /\ \A i \in DOMAIN timeouts : timeouts[i].live
  /\ co.pc = "idle" => timeouts = <<>>
  /\ co.pc = "await_promise"
       => (promise = "set" \/ \E i \in DOMAIN timeouts : timeouts[i].live)

\* C16: after a request whose response was chunked or a range response and
\* was read without error the socket is open, whatever the Connection
\* header of the response said.
C16_ChunkedOrRangeKeepsAlive ==
  (Answered /\ ret.op \in {"get", "head", "post", "download"}
     /\ ret.data.net_err = NoErr
     /\ (LastResponse.chunked \/ LastResponse.ranges))
    => ~ret.has_closed

\* C17: for a fixed-length response of declared length L with B bytes
\* buffered after the header: no further read if L <= B, one read of L - B
\* bytes if L > B; body_view is the L body bytes; L bytes are consumed; and
\* eof is true iff the read buffer is empty afterwards.
C17_FixedLengthBody ==
  (Answered /\ ret.op \in RequestOps /\ ret.data.net_err = NoErr
     /\ ret.method # "HEAD" /\ ~LastResponse.chunked)
    => LET L == Sum(LastResponse.sizes)
           B == ret.buffered
       IN /\ L <= B => ret.body_reads = <<>>
          /\ L > B => ret.body_reads = <<L - B>>
          /\ ret.data.resp_body = BodyOf(LastResponse)
          /\ ret.consumed = L
          /\ ret.data.eof <=> (read_buf_ = <<>>)

\* the bytes of the chunks before the first chunk-size line that does not
\* parse
RECURSIVE GoodPrefix(_)
GoodPrefix(sizes) ==
  IF sizes = <<>> \/ Head(sizes) < 0 THEN 0
  ELSE Head(sizes) + GoodPrefix(Tail(sizes))

\* C18: a negative or unparsable chunk-size line aborts the response: the
\* request returns protocol_error and status 404, the socket is closed, and
\* no chunk after the line is read or delivered.
C18_BadChunkSize ==
  (Answered /\ ret.bad_chunk)
    => /\ ret.data.net_err = ProtocolError
       /\ ret.data.status = 404
       /\ ret.has_closed
       /\ ret.delivered = Payload(1, GoodPrefix(LastResponse.sizes))

\* C19: after a response is read redirect_uri is captured exactly when the
\* status is in [300,399] and a Location header is present, and is empty
\* for a response outside [300,399] or without Location.
C19_RedirectCaptured ==
  (Answered /\ ret.op \in {"get", "head", "post", "download"}
     /\ ret.data.net_err = NoErr)
    => ((redirect_uri_ # <<>>)
          <=> (LastResponse.status \in 300..399 /\ LastResponse.location))

\* C20: a request to an https or wss URI that establishes a new connection
\* makes a client TLS handshake that succeeds before the connection is
\* marked open and before a byte of the request is written, whether or not
\* TLS was initialized beforehand; if the handshake cannot be made the
\* request fails with an error and has written nothing.
C20_HandshakeBeforeWrite ==
  /\ (co.pc # "idle" /\ co.new_conn /\ parse_from(co.uri).is_ssl
        /\ ~co.shaken)
       => (has_closed_ /\ co.sent = <<>>)
  /\ (Returns /\ ret.op \in {"get", "head", "post", "download"}
        /\ ret.new_conn /\ parse_from(ret.uri).is_ssl /\ ~ret.shaken)
       => (ret.data.net_err # NoErr /\ ret.sent = <<>> /\ ret.has_closed)

\* C21: when a read of the reader loop fails, on the frame header or on the
\* payload, with on_message registered, on_message is called exactly once
\* with the error and status 404, the loop ends, and no callback follows.
C21_ReadErrorDelivered ==
  LET ev == ws.events
      errs == { i \in 1..Len(ev) :
                  ev[i].cb = "on_message" /\ ev[i].net_err # NoErr }
  IN (ws.read_err # NoErr /\ ws.msg_cb) =>
       /\ ws.pc = "done"
       /\ errs = {Len(ev)}
       /\ ev[Len(ev)].net_err = ws.read_err
       /\ ev[Len(ev)].status = 404

\* C21 witness: the read of a payload failed after one message had been
\* delivered; on_message got the message, then the error
C21_Witness ==
  /\ ws.pc = "done"
  /\ ws.read_err = ReadEof
  /\ ws.msg_cb
  /\ ws.texts = 1
  /\ ws.size_to_read > 0
  /\ Len(ws.events) = 2
  /\ ws.events[1].status = 200
  /\ ws.events[2].status = 404

\* an add_str_part or add_file_part call has just returned
PartAdded == "part" \in DOMAIN last_add

\* the part heads the running upload has written, in the order written
HeadsWritten == SelectSeq(co.writes, LAMBDA w : w.kind = "part_head")

\* C22: the multipart registry keeps the parts in the order they were added
\* and their names unique: adding a name that is registered returns false
\* and leaves the registry as it was, and an upload sends the parts in the
\* order in which they were added.
C22_RegistryInsertionOrdered ==
  /\ (PartAdded /\ HasPart(last_add.before, last_add.part))
       => (~last_add.result /\ form_data_ = last_add.before)
  /\ \A i, j \in 1..Len(form_data_) :
       (i # j) => form_data_[i].name # form_data_[j].name
  /\ \A i, j \in 1..Len(form_data_) :
       (i < j) => form_data_[i].order < form_data_[j].order
  /\ co.op = "upload" =>
       \A i, j \in 1..Len(HeadsWritten) :
         (i < j) => form_data_[HeadsWritten[i].part].order
                      < form_data_[HeadsWritten[j].part].order

\* the operations that go through async_request
EngineOps == {"get", "head", "post", "download"}

\* C23: a request whose URI does not parse returns {protocol_error, 404};
\* it attempts no connect and neither writes nor reads on the socket.
C23_BadUriReturnsProtocolError ==
  (Returns /\ ret.op \in EngineOps /\ ret.round >= 1
     /\ ~parse_from(ret.uri).ok)
    => /\ ret.data.net_err = ProtocolError
       /\ ret.data.status = 404
       /\ ret.io = {}
       /\ ret.sent = <<>>

\* the string starts with one of the four literal scheme prefixes
HasSchemePrefix(s) ==
  \E prefix \in {Http, Https, Ws, Wss} : StartsWith(s, prefix)

\* uri is what the claimed normalization makes of arg
Normalized(arg, uri) ==
  uri = (IF HasSchemePrefix(arg) THEN arg ELSE Http \o arg)

\* C24: for every URI string a request is given, "http://" is prepended if
\* and only if the string does not start with one of the literal prefixes
\* "http://", "https://", "ws://", "wss://"; a string that starts with one
\* of them is left as it is.
C24_SchemeNormalized ==
  /\ (co.op \in EngineOps /\ co.round = 1) => Normalized(co.arg, co.uri)
  /\ (Returns /\ ret.op \in EngineOps /\ ret.round = 1)
       => Normalized(ret.arg, ret.uri)

\* the destruction has come to its end: the destructor has returned and no
\* thread is left waiting for the worker
Destroyed ==
  /\ life.dtor = "done"
  /\ life.helper # "join"
  /\ life.io_thd = "exited"

\* the steps of a destruction are in order: the close of an open socket is
\* requested first, then the sentinel dropped, then the worker joined, and
\* the worker exits only with the socket closed
DestructionOrdered ==
  /\ life.events \in
       {<<>>, <<"close">>, <<"close", "drop">>, <<"close", "drop", "join">>,
        <<"drop">>, <<"drop", "join">>}
  /\ (life.was_open /\ life.events # <<>>) => life.events[1] = "close"
  /\ life.work_ => life.joiner = "none"
  /\ life.io_thd = "exited" => (~life.work_ /\ has_closed_)
  /\ (life.events # <<>> /\ life.events[Len(life.events)] = "join")
       => life.io_thd = "exited"

\* the worker never joins itself: a destructor on the worker thread hands
\* io_ctx_ and io_thd_ to a detached thread, which joins
NoSelfJoin ==
  /\ ~(life.on_worker /\ life.joiner = "destructor")
  /\ (life.on_worker /\ life.joiner # "none")
       => (life.joiner = "helper" /\ life.helper # "none"
             /\ life.io_ctx # "client")

\* C25: destroying a client that owns its executor always terminates, in
\* the order: close of the socket requested through dispatch, the
\* keep-alive sentinel dropped, the worker joined; the worker thread is
\* never joined by itself: a destructor that runs on the worker thread
\* moves the executor and the worker handle to a detached thread that
\* makes the join.
C25_DestructorTerminates ==
  /\ [](DestructionOrdered /\ NoSelfJoin)
  /\ (life.dtor # "none") ~> Destroyed

\* C25 witness: a client with a connection open was destroyed on its worker
\* thread; the socket was closed on the spot, the sentinel dropped, and the
\* detached thread has joined the worker
C25_Witness ==
  /\ life.on_worker
  /\ life.was_open
  /\ life.helper = "done"
  /\ life.dtor = "done"
  /\ life.events = <<"close", "drop", "join">>

\* every request the record rec tells of went to the host its URI names
SentToOwnHost(rec) ==
  \A i \in 1..Len(rec.sent) :
    rec.sent[i].peer = parse_from(rec.sent[i].uri).host

\* C26: the bytes of every request, an auto-followed redirect included, are
\* written on a connection to the host the request's own URI names: a
\* keep-alive connection to another host is not used for it.
C26_WrittenToOwnHost ==
  /\ co.op \in EngineOps => SentToOwnHost(co)
  /\ (Returns /\ ret.op \in EngineOps) => SentToOwnHost(ret)

\* s is the beginning of t
IsPrefix(s, t) == Len(s) <= Len(t) /\ SubSeq(t, 1, Len(s)) = s

\* C27: the body_view an operation returns holds only bytes of the response
\* that operation read: what an earlier request left in the accumulator of
\* chunked bodies is never the body of a later request or upload whose own
\* response is not chunked.
C27_BodyOfOwnResponse ==
  (Returns /\ ret.op \in RequestOps)
    => /\ ret.resps = <<>> => ret.data.resp_body = <<>>
       /\ ret.resps # <<>>
            => IsPrefix(ret.data.resp_body, BodyOf(LastResponse))

\* C28: when a request starts on a connection it has just established
\* (after an error, a timeout, a Connection: close response or reset()) the
\* read buffer is empty: no byte left of the previous connection is there
\* to be parsed as part of the new connection's response.
C28_FreshConnectionEmptyBuffer ==
  (co.new_conn /\ co.pc \in {"handshake", "write", "write_header"})
    => read_buf_ = <<>>

\* C29: when a request operation returns (request or upload, on every exit
\* path) the deadline it armed is no longer pending: no deadline fires
\* after the operation that armed it has returned, so none closes the socket
\* of a later operation or marks it as timed out.
C29_DeadlineEndsWithOperation ==
  /\ co.pc = "idle" => timeouts = <<>>
  /\ co.stray = ""
  /\ (Returns /\ ret.op \in RequestOps)
       => /\ ret.stray = ""
          /\ ret.data.net_err = TimedOut => ret.fired # ""

\* C30: sending a file part always ends: whatever the registered size, the
\* max_single_part_size set (0 included) and the file at the time it is
\* sent (one that became shorter than registered included), every turn of
\* the slice loop takes bytes off what is left, so that the part is sent in
\* finitely many writes, at most one for each byte registered.
C30_SliceLoopTerminates ==
  co.op = "upload" =>
    /\ co.pc = "part_slice" => co.gcount > 0
    /\ \A p \in 1..Len(form_data_) :
         Len(SliceLens(p)) <= form_data_[p].size

\* C31: async_ws_connect gives true only when the server accepted the
\* upgrade, that is answered with status 101: a handshake answered with any
\* other status and no network error gives false.
C31_TrueOnlyOnUpgrade ==
  (Returns /\ ret.op = "ws_connect" /\ ws_connect_result(ret.data))
    => ret.data.status = 101

\* C32: the URI of an auto-followed redirect is the Location header of the
\* response that call has just received: a call that follows a redirect has
\* read a response carrying Location and requests the value of that header,
\* so that after a chunked response (or any response from which no Location
\* is captured) a URI captured from an earlier response is not followed.
C32_FollowsLocationJustReceived ==
  /\ co.pc = "redirect"
       => /\ co.resps[Len(co.resps)].location
          /\ redirect_uri_ = LocationValue
  /\ (co.op = "get" /\ co.round = 2)
       => /\ co.resps[1].location
          /\ ~co.resps[1].chunked
          /\ co.arg = LocationValue
  /\ (Answered /\ ret.op = "get"
        /\ (ret.resps[1].chunked \/ ~ret.resps[1].location))
       => Len(ret.sent) = 1

\* a GET with auto-redirect enabled returns the chunked redirect it was
\* answered with, complete and without error, while redirect_uri_ holds the
\* Location an earlier response left
C32_Witness ==
  /\ Returns
  /\ ret.op = "get"
  /\ ret.follow
  /\ ret.data.net_err = NoErr
  /\ Len(ret.resps) = 1
  /\ ret.resps[1].chunked
  /\ ret.resps[1].status = 301
  /\ Len(ret.sent) = 1
  /\ redirect_uri_ = LocationValue

====
